---- MODULE Spec2Model ----
(***************************************************************************)
(* Sit-Mon-PWA: the layer lifecycle (LayerManager and the layer classes),  *)
(* the orbit/zoom CameraController and the SelectionHighlight animator,    *)
(* as state machines.                                                      *)
(*                                                                         *)
(* JavaScript runs one task to completion and then drains the microtask    *)
(* queue: a promise's then/catch callbacks run after the task that settled *)
(* the promise and before the next event.  The layer model keeps the       *)
(* attached callbacks in `pending` (in attach order); an event (a user     *)
(* operation, a network settlement) is taken only when no callback is      *)
(* ready to run.                                                           *)
(***************************************************************************)
EXTENDS Integers, Sequences, FiniteSets, TLC

VARIABLES
  layers,        \* LayerManager.layers: the Map, as its <<key, layer>> entries
  initCalls,     \* history: per layer instance, the calls of its init()
  enabled,       \* BaseLayer.enabled, per layer
  objects,       \* BaseLayer.objects, per layer: the owned render objects
  data,          \* boundaryData / geojson is non-null, per layer
  dataPromise,   \* this.dataPromise, per layer: 0 (null) or an index in fetches
  fetches,       \* per layer, the fetches issued so far and their state
  iconSettled,   \* NaturalEarthPointsZipLayer: iconPromise has settled
  labelSprites,  \* NaturalEarthPopulatedPlacesLayer._labelSprites
  globeRef,      \* NaturalEarthPopulatedPlacesLayer._globe is non-null
  built,         \* history: per render object, the rank cutoff and the label cap
                 \* that the populated-places layer built it with
  selected,      \* history: desiredRank and desiredLabels of the most recent
                 \* updateDensityForZoom call, and whether the layer was
                 \* enabled with its data loaded at that call
  layerHooks,    \* the handlers the layers have in GlobeRenderer.tickHandlers
  removeTick,    \* this._removeTick, per layer: the handler it removes (0: null)
  maxScaleRank,  \* NaturalEarthPopulatedPlacesLayer.maxScaleRank (an option)
  maxLabels,     \* NaturalEarthPopulatedPlacesLayer.maxLabels (an option)
  currentMaxScaleRank,  \* NaturalEarthPopulatedPlacesLayer.currentMaxScaleRank
  currentMaxLabels,     \* NaturalEarthPopulatedPlacesLayer.currentMaxLabels
  pending,       \* then/catch callbacks attached and not yet run
  status,        \* the status overlay: its text and the ttlMs of its clear timer
  scene,         \* GlobeRenderer.scene: the render objects added and not removed
  last,          \* history: the layer step just taken
  radius,        \* CameraController.radius, as base * zoomSpeed^exp, base in 1e-6
  theta,         \* CameraController.theta, in 1e-6 rad
  phi,           \* CameraController.phi, in 1e-6 rad
  fov,           \* camera.fov, as base * zoomSpeed^exp, base in 1e-6 degrees
  isDragging,    \* CameraController.isDragging
  activePointerId, \* CameraController.activePointerId (0: null or undefined)
  lastX,         \* CameraController.lastX
  lastY,         \* CameraController.lastY
  onChange,      \* history: the onChange calls of the camera operation just run
  zoomArgs,      \* history: the arguments of the ensureZoomAtLeast just run
  camOp,         \* history: the camera operation just run
  highlights,    \* SelectionHighlight.highlights: the active highlights
  clock,         \* performance.now(), in ms
  flashed,       \* history: the number of highlights created so far
  released,      \* history: per highlight, how often tick() has released it
  lastTick,      \* history: what the SelectionHighlight step just taken did
  geojsonCache,  \* SelectionHighlight.geojsonCache: per dataUrl, the cached promise
  geoFetches,    \* history: per dataUrl, the fetch() calls of loadGeoJson
  flashRequests, \* flashGeoJsonFeature calls suspended at their await
  overlay,       \* the status overlay with its tokens: statusToken, the token of
                 \* the armed statusClearTimer, the token of the text shown
  features,      \* geojson.features: per feature, what the caller's predicate does
  rings,         \* the rings of a polygon: per ring, how it is formed; under
                 \* TessellateSpec the positions of one ring
  selection,     \* history: the features a predicate-driven step selected
  tickHandlers,  \* GlobeRenderer.tickHandlers: per handler, what a call of it does
  animationId,   \* GlobeRenderer.animationId: a frame is scheduled
  frame,         \* history: the number of frames begun and what the last one did
  cacheStorage,  \* CacheStorage of the origin: per cache name, the keys stored
  worker,        \* the service worker: its lifecycle state and, as history,
                 \* the number of fetch events handled
  fetchEvent     \* history: the last fetch event and what the handler did

layerVars == <<layers, initCalls, enabled, objects, data, dataPromise, fetches,
               iconSettled, labelSprites, globeRef, currentMaxScaleRank,
               currentMaxLabels, pending, status, scene, built, selected,
               layerHooks, removeTick>>

optionVars == <<maxScaleRank, maxLabels>>

workerVars == <<cacheStorage, worker, fetchEvent>>

camVars == <<radius, theta, phi, fov, isDragging, activePointerId, lastX, lastY,
             onChange, zoomArgs, camOp>>

requestVars == <<geojsonCache, geoFetches, flashRequests>>

highlightVars == <<highlights, clock, flashed, released, lastTick, requestVars>>

predicateVars == <<features, rings, selection>>

frameVars == <<tickHandlers, animationId, frame>>

vars == <<layers, initCalls, enabled, objects, data, dataPromise, fetches,
          iconSettled, labelSprites, globeRef, currentMaxScaleRank,
          currentMaxLabels, optionVars, workerVars, overlay, pending, status, scene, last, camVars,
          highlightVars, predicateVars, frameVars, built, selected, layerHooks,
          removeTick>>

-----------------------------------------------------------------------------
(* Bounds of the model *)

\* fetches one layer may issue (refresh of a points layer starts new ones)
MaxLoads == 2
\* callbacks one layer may have attached and waiting at a time
MaxWaiters == 2
\* render-object handles
MaxObjects == 4

-----------------------------------------------------------------------------
(* The layers the application registers, one of each class *)

LayerIds ==
  {"world-boundaries", "ne-airports-uk", "ne-populated-places-uk", "bin-demo-nelc"}

\* a layer object: its id and which of the objects built with that id it is
AppLayer(l) == [id |-> l, n |-> 1]

\* the layers of the application and a second layer built with the id of one
Instances == {AppLayer(l) : l \in LayerIds} \cup {[id |-> "world-boundaries", n |-> 2]}

\* variant: an entry is added whatever the keys present
mapSet_append(m, k, v) == m \cup {<<k, v>>}

\* Map.prototype.set
mapSet(m, k, v) == {e \in m : e[1] # k} \cup {<<k, v>>}

\* this.layers.get(id) is a layer
mapHas(m, k) == \E e \in m : e[1] = k

\* LayerManager.list(), as a set
list == {e[2] : e \in layers}

LayerClass(l) ==
  CASE l = "world-boundaries"       -> "BoundaryLayer"
    [] l = "ne-airports-uk"         -> "NaturalEarthPointsZipLayer"
    [] l = "ne-populated-places-uk" -> "NaturalEarthPopulatedPlacesLayer"
    [] l = "bin-demo-nelc"          -> "NelcBinDemoLayer"

\* The layer state as one value, so that a method can call another
\* (refresh calls disable and then enable).
St == [enabled |-> enabled, objects |-> objects, data |-> data,
       dataPromise |-> dataPromise, fetches |-> fetches,
       iconSettled |-> iconSettled, labelSprites |-> labelSprites,
       globeRef |-> globeRef, currentMaxScaleRank |-> currentMaxScaleRank,
       currentMaxLabels |-> currentMaxLabels, pending |-> pending,
       status |-> status, scene |-> scene, built |-> built, selected |-> selected,
       layerHooks |-> layerHooks, removeTick |-> removeTick]

\* what is recorded of an object the populated-places layer did not build
NoBuild == [rank |-> -1, labels |-> -1]

\* a layer step: the layer state becomes S, the camera is not touched; the
\* record of an object is dropped when the object leaves the scene
Commit(S) ==
  /\ UNCHANGED <<optionVars, workerVars, overlay, camVars, highlightVars, predicateVars, frameVars>>
  /\ built' = [i \in DOMAIN S.built |->
                 IF \E o \in S.scene : o.id = i THEN S.built[i] ELSE NoBuild]
  /\ selected' = S.selected
  /\ layerHooks' = S.layerHooks
  /\ removeTick' = S.removeTick
  /\ enabled' = S.enabled
  /\ objects' = S.objects
  /\ data' = S.data
  /\ dataPromise' = S.dataPromise
  /\ fetches' = S.fetches
  /\ iconSettled' = S.iconSettled
  /\ labelSprites' = S.labelSprites
  /\ globeRef' = S.globeRef
  /\ currentMaxScaleRank' = S.currentMaxScaleRank
  /\ currentMaxLabels' = S.currentMaxLabels
  /\ pending' = S.pending
  /\ status' = S.status
  /\ scene' = S.scene

Range(s) == {s[i] : i \in 1..Len(s)}

Max(a, b) == IF a >= b THEN a ELSE b
Min(a, b) == IF a <= b THEN a ELSE b

RECURSIVE SelectSeqBy(_, _)
\* Array.prototype.filter with the predicate given as the set of kept values
SelectSeqBy(s, keep) ==
  IF s = <<>> THEN <<>>
  ELSE IF Head(s) \in keep THEN <<Head(s)>> \o SelectSeqBy(Tail(s), keep)
       ELSE SelectSeqBy(Tail(s), keep)

-----------------------------------------------------------------------------
(* Render objects *)

ObjectIds == 1..MaxObjects

\* a render object: `owner` is the layer whose callback created it
Obj(i, k, l) == [id |-> i, kind |-> k, owner |-> l]

UsedIds(S) ==
  {o.id : o \in S.scene}
    \cup UNION {{o.id : o \in Range(S.objects[l])} : l \in LayerIds}
    \cup UNION {{o.id : o \in Range(S.labelSprites[l])} : l \in LayerIds}

FreeIds(S) == ObjectIds \ UsedIds(S)

\* a new object is a handle no live object has
NewId(S) == CHOOSE i \in FreeIds(S) : \A j \in FreeIds(S) : i <= j

\* GlobeRenderer.addObject / removeObject
addObject(S, o) == [S EXCEPT !.scene = @ \cup {o}]
removeObject(S, o) == [S EXCEPT !.scene = @ \ {o}]
removeObjects(S, os) == [S EXCEPT !.scene = @ \ os]

\* per-frame handlers of layers that may be registered at a time
MaxHooks == 3
HookIds == 1..MaxHooks

FreeHookIds(S) ==
  HookIds \ ({h.id : h \in S.layerHooks} \cup {S.removeTick[l] : l \in LayerIds})

\* variant: the handler registered before is left in tickHandlers
callRemoveTick_noop(S, l) == S

\* this._removeTick?.(): removeTickHandler(handler) takes the handler that
\* the closure holds out of tickHandlers, if it is there
callRemoveTick(S, l) ==
  [S EXCEPT !.layerHooks = {h \in @ : h.id # S.removeTick[l]}]

\* this._removeTick?.(); this._removeTick = globeRenderer.addTickHandler(...):
\* a new handler is pushed and the closure that removes it is kept
replaceTickHandler(S, l) ==
  LET S1 == callRemoveTick(S, l)
      h  == CHOOSE i \in FreeHookIds(S) : \A j \in FreeHookIds(S) : i <= j
  IN  [S1 EXCEPT !.layerHooks = @ \cup {[id |-> h, owner |-> l]},
                 !.removeTick[l] = h]

\* this._removeTick?.(); this._removeTick = null
dropTickHandler(S, l) == [callRemoveTick(S, l) EXCEPT !.removeTick[l] = 0]

-----------------------------------------------------------------------------
(* Promises and callbacks *)

\* a callback attached by enable() or refresh(): `fetch` is the data promise
\* it waits for (0: Promise.resolve(data)), `icon` whether it also waits for
\* the icon promise; `stale` (history) is set once a later enable() of the
\* same layer has been called; `token` tells whether the statusToken that
\* enable() got from setStatus() is still the latest one.
Waiter(l, k, f, ic) ==
  [layer |-> l, kind |-> k, fetch |-> f, icon |-> ic, stale |-> FALSE,
   token |-> k = "enable"]

FetchState(S, w) == IF w.fetch = 0 THEN "fulfilled" ELSE S.fetches[w.layer][w.fetch]

Rejected(S, w) == FetchState(S, w) = "rejected"

\* Promise.all rejects as soon as one input rejects, and is fulfilled when all are
Ready(S, w) ==
  \/ Rejected(S, w)
  \/ FetchState(S, w) = "fulfilled" /\ (w.icon => S.iconSettled[w.layer])

ReadyIdx(S) == {i \in 1..Len(S.pending) : Ready(S, S.pending[i])}

\* no callback is runnable: the microtask queue is empty
Idle == ReadyIdx(St) = {}

WaitersOf(S, l) == {i \in 1..Len(S.pending) : S.pending[i].layer = l}

MarkStale(S, l) ==
  [S EXCEPT !.pending =
     [i \in 1..Len(@) |->
        IF @[i].layer = l /\ @[i].kind = "enable" THEN [@[i] EXCEPT !.stale = TRUE] ELSE @[i]]]

Attach(S, w) == [S EXCEPT !.pending = Append(@, w)]

\* the overlay shows nothing and no timer is set
NoStatus == [text |-> "", ttlMs |-> 0]

\* setStatus(text, { ttlMs }): statusToken advances, so that no token handed
\* out before is the latest; the timer is replaced
setStatus(S, text, ttlMs) ==
  [S EXCEPT !.status = [text |-> text, ttlMs |-> ttlMs],
            !.pending = [i \in 1..Len(@) |-> [@[i] EXCEPT !.token = FALSE]]]

\* clearStatus(token): token tells whether the token passed is the latest
clearStatus(S, token) == IF token THEN [S EXCEPT !.status = NoStatus] ELSE S

\* ensureDataLoaded(): the state after the call
ensureDataLoaded(S, l) ==
  IF S.data[l] THEN S
  ELSE IF S.dataPromise[l] # 0 THEN S
  ELSE [S EXCEPT !.fetches[l] = Append(@, "pending"),
                 !.dataPromise[l] = Len(S.fetches[l]) + 1]

\* ensureDataLoaded(): the promise returned (0: already resolved with the data)
dataPromiseOf(S, l) == IF S.data[l] THEN 0 ELSE ensureDataLoaded(S, l).dataPromise[l]

\* the bounds on fetches, on waiting callbacks and on handlers allow this
\* enable()
CanEnable(S, l) ==
  /\ Cardinality(WaitersOf(S, l)) < MaxWaiters
  /\ S.data[l] \/ S.dataPromise[l] # 0 \/ Len(S.fetches[l]) < MaxLoads
  /\ FreeHookIds(S) # {}

-----------------------------------------------------------------------------
(* BaseLayer *)

BaseLayer_enable(S, l) == [S EXCEPT !.enabled[l] = TRUE]

BaseLayer_disable(S, l) == [S EXCEPT !.enabled[l] = FALSE]

-----------------------------------------------------------------------------
(* BoundaryLayer *)

BoundaryLayer_enable(S, l) ==
  LET S1 == MarkStale(setStatus(BaseLayer_enable(S, l), "loading", 0), l)
      S2 == ensureDataLoaded(S1, l)
  IN  Attach(S2, Waiter(l, "enable", dataPromiseOf(S1, l), FALSE))

\* variant: the callback does not look at this.enabled
BoundaryLayer_enable_then_unchecked(S, l, token) ==
  LET lines == Obj(NewId(S), "lines", l)
  IN  clearStatus([addObject(S, lines) EXCEPT !.objects[l] = <<lines>>], token)

\* the .then callback of enable(): the data promise was fulfilled
BoundaryLayer_enable_then(S, l, token) ==
  IF ~S.enabled[l] THEN S
  ELSE LET lines == Obj(NewId(S), "lines", l)
       IN  clearStatus([addObject(S, lines) EXCEPT !.objects[l] = <<lines>>], token)

\* the .catch callback of enable()
BoundaryLayer_enable_catch(S, l, token) ==
  setStatus(clearStatus(S, token), "failed", 5000)

\* variant: disable() removes the objects from the scene and keeps the list
BoundaryLayer_disable_keepsList(S, l) ==
  LET S1 == BaseLayer_disable(S, l)
  IN  removeObjects(S1, Range(S1.objects[l]))

BoundaryLayer_disable(S, l) ==
  LET S1 == BaseLayer_disable(S, l)
      S2 == removeObjects(S1, Range(S1.objects[l]))
  IN  [S2 EXCEPT !.objects[l] = <<>>]

BoundaryLayer_refresh(S, l) ==
  LET S1 == ensureDataLoaded(S, l)
  IN  Attach(S1, Waiter(l, "refresh", dataPromiseOf(S, l), FALSE))

\* the .then callback of refresh()
BoundaryLayer_refresh_then(S, l) ==
  IF S.enabled[l] THEN BoundaryLayer_enable(BoundaryLayer_disable(S, l), l) ELSE S

-----------------------------------------------------------------------------
(* NelcBinDemoLayer, a FilteredBoundaryLayer; its label sprite is left out *)

\* super.enable(), then the handler that keeps the label in place replaces
\* the one registered before; the callback that computes the label anchor
\* touches neither the objects nor the handlers
NelcBinDemoLayer_enable(S, l) == replaceTickHandler(BoundaryLayer_enable(S, l), l)

NelcBinDemoLayer_disable(S, l) == dropTickHandler(BoundaryLayer_disable(S, l), l)

\* the .then callback of BoundaryLayer.refresh() calls this.disable() and
\* this.enable()
NelcBinDemoLayer_refresh_then(S, l) ==
  IF S.enabled[l] THEN NelcBinDemoLayer_enable(NelcBinDemoLayer_disable(S, l), l) ELSE S

-----------------------------------------------------------------------------
(* NaturalEarthPointsZipLayer *)

NaturalEarthPointsZipLayer_enable(S, l) ==
  LET S1 == MarkStale(setStatus(BaseLayer_enable(S, l), "loading", 0), l)
      S2 == ensureDataLoaded(S1, l)
  IN  Attach(S2, Waiter(l, "enable", dataPromiseOf(S1, l), TRUE))

\* the .then callback of enable(): buildPointsObject(this.geojson) is null
\* when geojson is null
NaturalEarthPointsZipLayer_enable_then(S, l, token) ==
  IF ~S.enabled[l] THEN S
  ELSE IF ~S.data[l] THEN setStatus(clearStatus(S, token), "nothing to show", 2500)
  ELSE LET points == Obj(NewId(S), "points", l)
       IN  clearStatus([addObject(S, points) EXCEPT !.objects[l] = <<points>>], token)

\* the .catch callback of enable(), the same in both point layers
NaturalEarthPointsZipLayer_enable_catch(S, l, token) ==
  setStatus(clearStatus(S, token), "failed", 6000)

NaturalEarthPointsZipLayer_disable(S, l) ==
  LET S1 == BaseLayer_disable(S, l)
      S2 == removeObjects(S1, Range(S1.objects[l]))
  IN  [S2 EXCEPT !.objects[l] = <<>>]

NaturalEarthPointsZipLayer_refresh(S, l) ==
  LET S1 == [S EXCEPT !.dataPromise[l] = 0, !.data[l] = FALSE]
  IN  IF S1.enabled[l]
      THEN NaturalEarthPointsZipLayer_enable(NaturalEarthPointsZipLayer_disable(S1, l), l)
      ELSE S1

-----------------------------------------------------------------------------
(* NaturalEarthPopulatedPlacesLayer *)

\* buildPointsObject filters by rankCutoff = this.currentMaxScaleRank
pointsBuild(S) == [rank |-> S.currentMaxScaleRank, labels |-> -1]

\* variant: the labels are built with the options of the constructor
labelsBuild_options(S) == [rank |-> maxScaleRank, labels |-> maxLabels]

\* buildLabelSprites filters by rankCutoff = this.currentMaxScaleRank and
\* stops at labelCap = this.currentMaxLabels
labelsBuild(S) == [rank |-> S.currentMaxScaleRank, labels |-> S.currentMaxLabels]

NaturalEarthPopulatedPlacesLayer_enable(S, l) ==
  LET S0 == setStatus([BaseLayer_enable(S, l) EXCEPT !.globeRef[l] = TRUE], "loading", 0)
      S1 == MarkStale(S0, l)
      S2 == ensureDataLoaded(S1, l)
  IN  Attach(S2, Waiter(l, "enable", dataPromiseOf(S1, l), FALSE))

\* the .then callback of enable(): the points object and the label sprites
\* are pushed onto this.objects
NaturalEarthPopulatedPlacesLayer_enable_then(S, l, token) ==
  IF ~S.enabled[l] THEN S
  ELSE IF ~S.data[l]
  THEN clearStatus(replaceTickHandler([S EXCEPT !.labelSprites[l] = <<>>], l), token)
  ELSE LET pointsObj == Obj(NewId(S), "points", l)
           S1 == [addObject(S, pointsObj) EXCEPT
                    !.objects[l] = Append(@, pointsObj),
                    !.built[pointsObj.id] = pointsBuild(S)]
           sprite == Obj(NewId(S1), "sprite", l)
           S2 == [addObject(S1, sprite) EXCEPT
                    !.objects[l] = Append(@, sprite),
                    !.built[sprite.id] = labelsBuild(S1)]
       IN  clearStatus(replaceTickHandler([S2 EXCEPT !.labelSprites[l] = <<sprite>>], l),
                       token)

disposeLabelSprites(S, l) ==
  LET S1 == IF S.globeRef[l] THEN removeObjects(S, Range(S.labelSprites[l])) ELSE S
  IN  [S1 EXCEPT !.labelSprites[l] = <<>>,
                 !.objects[l] = SelectSeqBy(@, {o \in Range(@) : o.kind # "sprite"})]

NaturalEarthPopulatedPlacesLayer_disable(S, l) ==
  LET S1 == dropTickHandler(BaseLayer_disable(S, l), l)
      S2 == removeObjects(S1, Range(S1.objects[l]))
      S3 == disposeLabelSprites(S2, l)
  IN  [S3 EXCEPT !.objects[l] = <<>>, !.globeRef[l] = FALSE]

NaturalEarthPopulatedPlacesLayer_refresh(S, l) ==
  LET S1 == [S EXCEPT !.dataPromise[l] = 0, !.data[l] = FALSE]
  IN  IF S1.enabled[l]
      THEN NaturalEarthPopulatedPlacesLayer_enable(
             NaturalEarthPopulatedPlacesLayer_disable(S1, l), l)
      ELSE S1

\* the options the application constructs the layer with
appMaxScaleRank == 10
appMaxLabels == 720

\* variant: the second tier of updateDensityForZoom shows fewer places than
\* the first
desiredDensity_dip(z) ==
  IF z < 1400 THEN [rank |-> Min(maxScaleRank, 3), labels |-> Min(maxLabels, 140)]
  ELSE IF z < 2200 THEN [rank |-> Min(maxScaleRank, 2), labels |-> Min(maxLabels, 120)]
  ELSE [rank |-> maxScaleRank, labels |-> maxLabels]

\* desiredRank and desiredLabels of updateDensityForZoom for z in 1e-3
desiredDensity(z) ==
  IF z < 1400 THEN [rank |-> Min(maxScaleRank, 3), labels |-> Min(maxLabels, 140)]
  ELSE IF z < 2200 THEN [rank |-> Min(maxScaleRank, 4), labels |-> Min(maxLabels, 220)]
  ELSE IF z < 3200 THEN [rank |-> Min(maxScaleRank, 5), labels |-> Min(maxLabels, 320)]
  ELSE IF z < 4800 THEN [rank |-> Min(maxScaleRank, 6), labels |-> Min(maxLabels, 440)]
  ELSE IF z < 6500 THEN [rank |-> Min(maxScaleRank, 7), labels |-> Min(maxLabels, 520)]
  ELSE IF z < 8500 THEN [rank |-> Min(maxScaleRank, 8), labels |-> Min(maxLabels, 600)]
  ELSE IF z < 10500 THEN [rank |-> Min(maxScaleRank, 9), labels |-> Min(maxLabels, 700)]
  ELSE [rank |-> maxScaleRank, labels |-> maxLabels]

\* zoom factors the observer passes, in 1e-3: 0 (also for NaN), two of the
\* first tier, one of the second and one of the last
ZoomFactors == {0, 1000, 1300, 1400, 12000}

\* zoom factors below, at and above every tier edge
TierEdges ==
  {-1000, 0, 1000, 1399, 1400, 2199, 2200, 3199, 3200, 4799, 4800, 6499, 6500,
   8499, 8500, 10499, 10500, 50000}

\* maxScaleRank and maxLabels options: below, among and above the tier values
ScaleRanks == {0, 3, 5, 9, 10, 12}
LabelCaps == {0, 140, 300, 450, 720, 1000}

\* Number(zoomFactor) || 1, zoomFactor in 1e-3 (0 also stands for NaN)
zoomOrOne(zoomFactor) == IF zoomFactor = 0 THEN 1000 ELSE zoomFactor

\* variant: the early return of updateDensityForZoom is never taken
sameDensity_never(S, d) == FALSE

\* desiredRank === this.currentMaxScaleRank && desiredLabels === this.currentMaxLabels
sameDensity(S, d) == d.rank = S.currentMaxScaleRank /\ d.labels = S.currentMaxLabels

rebuildLabels(S, l) ==
  IF ~S.globeRef[l] \/ ~S.data[l]
  THEN S
  ELSE LET S1 == disposeLabelSprites(S, l)
           sprite == Obj(NewId(S1), "sprite", l)
           S2 == [addObject(S1, sprite) EXCEPT
                    !.objects[l] = Append(@, sprite),
                    !.built[sprite.id] = labelsBuild(S1)]
       IN  [S2 EXCEPT !.labelSprites[l] = <<sprite>>]

\* whether updateDensityForZoom goes on to rebuildLabels()
DensityRebuilds(S, l, z) ==
  /\ ~sameDensity(S, desiredDensity(z))
  /\ S.enabled[l] /\ S.data[l] /\ S.globeRef[l]

NaturalEarthPopulatedPlacesLayer_updateDensityForZoom(S, l, zoomFactor) ==
  LET z == zoomOrOne(zoomFactor)
      d == desiredDensity(z)
      S0 == [S EXCEPT !.selected = [rank |-> d.rank, labels |-> d.labels,
                                    ready |-> S.enabled[l] /\ S.data[l]]]
      S1 == [S0 EXCEPT !.currentMaxScaleRank = d.rank, !.currentMaxLabels = d.labels]
  IN  IF sameDensity(S, d) THEN S0
      ELSE IF ~S.enabled[l] \/ ~S.data[l] \/ ~S.globeRef[l] THEN S1
      ELSE rebuildLabels(S1, l)

-----------------------------------------------------------------------------
(* Dispatch on the layer's class *)

LayerEnable(S, l) ==
  CASE LayerClass(l) = "BoundaryLayer" -> BoundaryLayer_enable(S, l)
    [] LayerClass(l) = "NelcBinDemoLayer" -> NelcBinDemoLayer_enable(S, l)
    [] LayerClass(l) = "NaturalEarthPointsZipLayer" -> NaturalEarthPointsZipLayer_enable(S, l)
    [] LayerClass(l) = "NaturalEarthPopulatedPlacesLayer" ->
         NaturalEarthPopulatedPlacesLayer_enable(S, l)

LayerDisable(S, l) ==
  CASE LayerClass(l) = "BoundaryLayer" -> BoundaryLayer_disable(S, l)
    [] LayerClass(l) = "NelcBinDemoLayer" -> NelcBinDemoLayer_disable(S, l)
    [] LayerClass(l) = "NaturalEarthPointsZipLayer" -> NaturalEarthPointsZipLayer_disable(S, l)
    [] LayerClass(l) = "NaturalEarthPopulatedPlacesLayer" ->
         NaturalEarthPopulatedPlacesLayer_disable(S, l)

LayerRefresh(S, l) ==
  CASE LayerClass(l) \in {"BoundaryLayer", "NelcBinDemoLayer"} -> BoundaryLayer_refresh(S, l)
    [] LayerClass(l) = "NaturalEarthPointsZipLayer" -> NaturalEarthPointsZipLayer_refresh(S, l)
    [] LayerClass(l) = "NaturalEarthPopulatedPlacesLayer" ->
         NaturalEarthPopulatedPlacesLayer_refresh(S, l)

\* the fulfilment callback of waiter w
LayerThen(S, w) ==
  CASE w.kind = "refresh" /\ LayerClass(w.layer) = "NelcBinDemoLayer" ->
         NelcBinDemoLayer_refresh_then(S, w.layer)
    [] w.kind = "refresh" /\ LayerClass(w.layer) # "NelcBinDemoLayer" ->
         BoundaryLayer_refresh_then(S, w.layer)
    [] w.kind = "enable" /\ LayerClass(w.layer) \in {"BoundaryLayer", "NelcBinDemoLayer"} ->
         BoundaryLayer_enable_then(S, w.layer, w.token)
    [] w.kind = "enable" /\ LayerClass(w.layer) = "NaturalEarthPointsZipLayer" ->
         NaturalEarthPointsZipLayer_enable_then(S, w.layer, w.token)
    [] w.kind = "enable" /\ LayerClass(w.layer) = "NaturalEarthPopulatedPlacesLayer" ->
         NaturalEarthPopulatedPlacesLayer_enable_then(S, w.layer, w.token)

\* the rejection callback (.catch) of waiter w: a console warning and, for
\* enable(), a status message
LayerCatch(S, w) ==
  CASE w.kind = "refresh" -> S
    [] w.kind = "enable" /\ LayerClass(w.layer) \in {"BoundaryLayer", "NelcBinDemoLayer"} ->
         BoundaryLayer_enable_catch(S, w.layer, w.token)
    [] w.kind = "enable" /\ LayerClass(w.layer) \notin {"BoundaryLayer", "NelcBinDemoLayer"} ->
         NaturalEarthPointsZipLayer_enable_catch(S, w.layer, w.token)

\* object handles the fulfilment callback may need
HandlesNeeded(w) ==
  IF w.kind = "enable" /\ LayerClass(w.layer) = "NaturalEarthPopulatedPlacesLayer" THEN 2 ELSE 1

-----------------------------------------------------------------------------
(* LayerManager and the events of the layer lifecycle *)

\* history record of a step: `was` and `pre` are layer.enabled and
\* layer.objects.length before the step; kind, stale, ok and result describe
\* a callback that ran, zoom is the argument of updateDensityForZoom
Step(op, id, S) ==
  [op |-> op, id |-> id, was |-> S.enabled[id], pre |-> Len(S.objects[id]),
   kind |-> "none", stale |-> FALSE, ok |-> TRUE, result |-> "none",
   zoom |-> 0]

\* variant: enableLayer does not test layer.enabled
ShouldEnable_always(S, l) == mapHas(layers, l)

\* LayerManager.enableLayer: if (layer && !layer.enabled)
ShouldEnable(S, l) == mapHas(layers, l) /\ ~S.enabled[l]

\* LayerManager.disableLayer: if (layer && layer.enabled)
ShouldDisable(S, l) == mapHas(layers, l) /\ S.enabled[l]

\* variant: refreshLayer does not test layer.enabled
ShouldRefresh_registered(S, l) == mapHas(layers, l)

\* LayerManager.refreshLayer: if (layer && layer.enabled)
ShouldRefresh(S, l) == mapHas(layers, l) /\ S.enabled[l]

LayerManager_enableLayer(S, l) == IF ShouldEnable(S, l) THEN LayerEnable(S, l) ELSE S

LayerManager_disableLayer(S, l) == IF ShouldDisable(S, l) THEN LayerDisable(S, l) ELSE S

LayerManager_refreshLayer(S, l) == IF ShouldRefresh(S, l) THEN LayerRefresh(S, l) ELSE S

\* calls of register() with one layer object
MaxRegisters == 2

\* LayerManager.register: layers.set(layer.id, layer); layer.init(globeRenderer).
\* init() of the points layer starts the icon load; the other init()s change
\* nothing when no data was passed to the constructor.
Register(layer) ==
  /\ Idle
  /\ initCalls[layer] < MaxRegisters
  /\ layers' = mapSet(layers, layer.id, layer)
  /\ initCalls' = [initCalls EXCEPT ![layer] = @ + 1]
  /\ Commit(St)
  /\ last' = Step("register", layer.id, St)

\* A layer touches only its own fields, its own callbacks and the objects it
\* created, so the classes are explored one registered layer at a time.
RegisterOnly(l) ==
  /\ \A e \in layers : e[1] = l
  /\ Register(AppLayer(l))

EnableLayer(l) ==
  /\ Idle
  /\ ShouldEnable(St, l) => CanEnable(St, l)
  /\ Commit(LayerManager_enableLayer(St, l))
  /\ last' = Step("enableLayer", l, St)
  /\ UNCHANGED <<layers, initCalls>>

DisableLayer(l) ==
  /\ Idle
  /\ Commit(LayerManager_disableLayer(St, l))
  /\ last' = Step("disableLayer", l, St)
  /\ UNCHANGED <<layers, initCalls>>

\* LayerManager.toggleLayer(id, enabled)
ToggleLayer(l, on) ==
  /\ Idle
  /\ (on /\ ShouldEnable(St, l)) => CanEnable(St, l)
  /\ Commit(IF on THEN LayerManager_enableLayer(St, l) ELSE LayerManager_disableLayer(St, l))
  /\ last' = Step(IF on THEN "toggleOn" ELSE "toggleOff", l, St)
  /\ UNCHANGED <<layers, initCalls>>

RefreshLayer(l) ==
  /\ Idle
  /\ ShouldRefresh(St, l) => CanEnable(St, l)
  /\ Commit(LayerManager_refreshLayer(St, l))
  /\ last' = Step("refreshLayer", l, St)
  /\ UNCHANGED <<layers, initCalls>>

\* fetch i of layer l succeeds: the last link of the promise chain stores the
\* parsed data in the layer and fulfils the promise
LoadResolve(l, i) ==
  /\ Idle
  /\ i \in 1..Len(fetches[l])
  /\ fetches[l][i] = "pending"
  /\ Commit([St EXCEPT !.fetches[l][i] = "fulfilled", !.data[l] = TRUE])
  /\ last' = Step("loadResolve", l, St)
  /\ UNCHANGED <<layers, initCalls>>

\* fetch i of layer l fails (network error, !res.ok, parse error)
LoadReject(l, i) ==
  /\ Idle
  /\ i \in 1..Len(fetches[l])
  /\ fetches[l][i] = "pending"
  /\ Commit([St EXCEPT !.fetches[l][i] = "rejected"])
  /\ last' = Step("loadReject", l, St)
  /\ UNCHANGED <<layers, initCalls>>

\* the icon promise of a points layer settles (ensureIconLoaded never rejects)
IconSettle(l) ==
  /\ Idle
  /\ mapHas(layers, l)
  /\ LayerClass(l) = "NaturalEarthPointsZipLayer"
  /\ ~iconSettled[l]
  /\ Commit([St EXCEPT !.iconSettled[l] = TRUE])
  /\ last' = Step("iconSettle", l, St)
  /\ UNCHANGED <<layers, initCalls>>

\* the application's onChange observer calls updateDensityForZoom of the
\* populated-places layer, registered or not
updateDensityForZoom(zoomFactor) ==
  /\ Idle
  /\ LET l == "ne-populated-places-uk"
         rebuilds == DensityRebuilds(St, l, zoomOrOne(zoomFactor))
     IN  /\ rebuilds => FreeIds(disposeLabelSprites(St, l)) # {}
         /\ Commit(NaturalEarthPopulatedPlacesLayer_updateDensityForZoom(St, l, zoomFactor))
         /\ last' = [Step("updateDensityForZoom", l, St) EXCEPT
                       !.zoom = zoomFactor,
                       !.result = IF rebuilds THEN "rebuilt" ELSE "none"]
  /\ UNCHANGED <<layers, initCalls>>

\* the timer set by setStatus fires: the message is cleared
StatusTimeout ==
  /\ Idle
  /\ status.ttlMs > 0
  /\ Commit([St EXCEPT !.status = NoStatus])
  /\ last' = Step("statusTimeout", last.id, St)
  /\ UNCHANGED <<layers, initCalls>>

RemoveAt(s, i) == SubSeq(s, 1, i - 1) \o SubSeq(s, i + 1, Len(s))

\* the next microtask: the first runnable callback runs to completion
RunCallback ==
  /\ ReadyIdx(St) # {}
  /\ LET i  == CHOOSE j \in ReadyIdx(St) : \A k \in ReadyIdx(St) : j <= k
         w  == pending[i]
         S0 == [St EXCEPT !.pending = RemoveAt(@, i)]
     IN  /\ ~Rejected(St, w) => Cardinality(FreeIds(St)) >= HandlesNeeded(w)
         /\ FreeHookIds(St) # {}
         /\ Commit(IF Rejected(St, w) THEN LayerCatch(S0, w) ELSE LayerThen(S0, w))
         /\ last' = [Step("callback", w.layer, St) EXCEPT
                       !.kind = w.kind, !.stale = w.stale, !.ok = ~Rejected(St, w),
                       !.result = IF Rejected(St, w) THEN "failed"
                                  ELSE IF w.kind = "enable" /\ ~enabled[w.layer] THEN "skipped"
                                  ELSE "applied"]
  /\ UNCHANGED <<layers, initCalls>>

LayerInit ==
  /\ layers = {}
  /\ initCalls = [i \in Instances |-> 0]
  /\ enabled = [l \in LayerIds |-> FALSE]
  /\ objects = [l \in LayerIds |-> <<>>]
  /\ data = [l \in LayerIds |-> FALSE]
  /\ dataPromise = [l \in LayerIds |-> 0]
  /\ fetches = [l \in LayerIds |-> <<>>]
  /\ iconSettled = [l \in LayerIds |-> FALSE]
  /\ labelSprites = [l \in LayerIds |-> <<>>]
  /\ globeRef = [l \in LayerIds |-> FALSE]
  /\ pending = <<>>
  /\ status = NoStatus
  /\ scene = {}
  /\ built = [i \in ObjectIds |-> NoBuild]
  /\ layerHooks = {}
  /\ removeTick = [l \in LayerIds |-> 0]
  /\ last = [op |-> "init", id |-> "world-boundaries", was |-> FALSE, pre |-> 0,
             kind |-> "none", stale |-> FALSE, ok |-> TRUE, result |-> "none",
             zoom |-> 0]

\* the constructor of the populated-places layer, given its options
OptionsInit(ranks, caps) ==
  /\ maxScaleRank \in ranks
  /\ maxLabels \in caps
  /\ currentMaxScaleRank = maxScaleRank
  /\ currentMaxLabels = maxLabels
  /\ selected = [rank |-> maxScaleRank, labels |-> maxLabels, ready |-> FALSE]

-----------------------------------------------------------------------------
(* CameraController.                                                       *)
(*                                                                         *)
(* Lengths are in 1e-6, fields of view in 1e-6 degrees and angles in 1e-6  *)
(* radians, so the 1e-6 tolerances of the code are one unit; zoom factors  *)
(* are in 1e-3.  The only arithmetic applied to radius and field of view   *)
(* is multiplication and division by zoomSpeed, so each of the two is held *)
(* exactly, as base * zoomSpeed^exp: a zoom step changes the exponent, a   *)
(* clamp or an assignment installs a new base.  Val gives the value in     *)
(* units, for the comparisons.  All products stay below 2^31.              *)

baseRadius == 4000000
minRadius == 1050000
maxRadius == 10000000
minPhi == 100000
\* Math.PI - 0.1
maxPhi == 3041593
\* Math.PI / 2
halfPi == 1570796
\* camera.fov at construction: new THREE.PerspectiveCamera(45, ...)
baseFov == 45000000
minFov == 4000000
maxFov == baseFov
\* 0.005 rad per pixel
rotateSpeed == 5000
\* zoomSpeed = 1.08 = 27/25
zoomSpeedNum == 27
zoomSpeedDen == 25
\* the tolerance 1e-6 of zoomIn, zoomOut, setFov and ensureZoomAtLeast
Eps == 1

Abs(x) == IF x < 0 THEN -x ELSE x

\* the number b, and the numbers v * zoomSpeed and v / zoomSpeed
Num(b) == [base |-> b, exp |-> 0]
MulZoom(v) == [v EXCEPT !.exp = @ + 1]
\* variant: dividing by zoomSpeed multiplies
DivZoom_multiplies(v) == [v EXCEPT !.exp = @ + 1]
DivZoom(v) == [v EXCEPT !.exp = @ - 1]

\* the argument of focusOn: no object, an object with a field that is not a
\* number, the app's UK box, and the box of latitudes 89.5 to 90 around the
\* pole, whose centre lies at a polar angle below minPhi and whose fitting
\* radius is below minRadius
RegionBounds == {"UK", "POLAR_CAP"}
FocusArgs == {"null", "nonNumeric"} \cup RegionBounds

\* Math.atan2(center.x, center.z) for the centre of the box
centerTheta(b) ==
  CASE b = "UK" -> 1514073
    [] b = "POLAR_CAP" -> 1570796

\* Math.acos(center.y) for the centre of the box
centerPhi(b) ==
  CASE b = "UK" -> 604757
    [] b = "POLAR_CAP" -> 4363

\* cos(alpha) + sin(alpha) / tan(gamma) for the box, at the field of view
\* baseFov that focusOn has just installed
desiredRadius(b) ==
  CASE b = "UK" -> 1297176
    [] b = "POLAR_CAP" -> 1035395

\* x * zoomSpeed^e by single steps, each rounded to the nearest unit.  A
\* value past maxFov, the largest bound a number is compared with, is left
\* as it is: every comparison on it is already decided.
RECURSIVE Scale(_, _)
Scale(x, e) ==
  IF e = 0 \/ (e > 0 /\ x > maxFov) THEN x
  ELSE IF e > 0
       THEN Scale((x * zoomSpeedNum + zoomSpeedDen \div 2) \div zoomSpeedDen, e - 1)
       ELSE Scale((x * zoomSpeedDen + zoomSpeedNum \div 2) \div zoomSpeedNum, e + 1)

\* Scale, tabulated once for the bases and exponents the controller uses
MaxExp == 34
ScaleBases ==
  {baseRadius, minRadius, maxRadius, baseFov, minFov} \cup {desiredRadius(b) : b \in RegionBounds}
ScaleTable == [b \in ScaleBases |-> [e \in -MaxExp..MaxExp |-> Scale(b, e)]]

\* the value of v in units
Val(v) ==
  IF v.exp = 0 THEN v.base
  ELSE IF Abs(v.exp) <= MaxExp /\ v.base \in ScaleBases
       THEN ScaleTable[v.base][v.exp]
       ELSE Scale(v.base, v.exp)

\* Math.max(lo, Math.min(hi, value)) on an exactly held number
clampNum(v, lo, hi) ==
  IF Val(v) < lo THEN Num(lo) ELSE IF Val(v) > hi THEN Num(hi) ELSE v

\* CameraController.clamp, on angles
clamp(value, lo, hi) == Max(lo, Min(hi, value))

\* variant: clampRadius without the upper limit
clampRadius_noUpper(value) == clampNum(value, minRadius, Val(value))

clampRadius(value) == clampNum(value, minRadius, maxRadius)

clampFov(value) == clampNum(value, minFov, maxFov)

\* setFov(value): the field of view after the call, f being the one before
setFov(f, value) ==
  LET next == clampFov(value)
  IN  IF Abs(Val(f) - Val(next)) < Eps THEN f ELSE next

\* getZoomFactor(), in 1e-3: distanceZoom in 1e-4 times fovZoom in 1e-3
getZoomFactor(r, f) ==
  LET distanceZoom == (baseRadius * 100) \div (Val(r) \div 100)
      fovZoom == baseFov \div (Val(f) \div 1000)
  IN  (distanceZoom * fovZoom) \div 10000

\* the camera's orbit and zoom state as one value
Cam == [radius |-> radius, theta |-> theta, phi |-> phi, fov |-> fov]

\* variant: zoomIn that narrows the field of view whatever the radius
zoomInStep_fovFirst(c) ==
  [c EXCEPT !.fov = setFov(c.fov, clampFov(DivZoom(c.fov)))]

\* zoomIn(), up to its call of updateCameraPosition()
zoomInStep(c) ==
  LET nextRadius == DivZoom(c.radius)
  IN  IF Val(nextRadius) >= minRadius + Eps
      THEN [c EXCEPT !.radius = clampRadius(nextRadius)]
      ELSE [c EXCEPT !.fov = setFov(c.fov, clampFov(DivZoom(c.fov)))]

\* variant: zoomOut that moves back whatever the field of view
zoomOutStep_radiusFirst(c) ==
  [c EXCEPT !.radius = clampRadius(MulZoom(c.radius))]

\* zoomOut(), up to its call of updateCameraPosition()
zoomOutStep(c) ==
  IF Val(c.fov) < maxFov - Eps
  THEN [c EXCEPT !.fov = setFov(c.fov, clampFov(MulZoom(c.fov)))]
  ELSE [c EXCEPT !.radius = clampRadius(MulZoom(c.radius))]

\* updateCameraPosition(): the observer is called with the zoom factor of
\* the state at the time of the call
updateCameraPosition(c) ==
  [called |-> TRUE, zoom |-> getZoomFactor(c.radius, c.fov), calls |-> 1]

\* the operation returned without reaching updateCameraPosition()
NotCalled == [called |-> FALSE, zoom |-> 0, calls |-> 0]

\* Number(x): a finite number of 1e-3, or a value that is not finite
Finite(v) == [finite |-> TRUE, value |-> v]
NotFinite == [finite |-> FALSE, value |-> 0]

\* an operation other than ensureZoomAtLeast has run
NoArgs == [minZoomFactor |-> NotFinite, maxSteps |-> 0]

\* operation op, called with args, ends in state c, having gone n times
\* through updateCameraPosition(), the last time on c
CommitCalls(c, n, op, args) ==
  /\ \E d \in {c} :
       /\ radius' = d.radius
       /\ theta' = d.theta
       /\ phi' = d.phi
       /\ fov' = d.fov
       /\ onChange' = IF n > 0
                      THEN [updateCameraPosition(d) EXCEPT !.calls = n]
                      ELSE NotCalled
  /\ camOp' = op
  /\ zoomArgs' = args
  /\ UNCHANGED <<layerVars, optionVars, workerVars, overlay, last, highlightVars, predicateVars,
                 frameVars>>

\* operation op ends in state c, having gone through updateCameraPosition()
\* on that state if notify holds, and not at all otherwise
CommitCam(c, notify, op) == CommitCalls(c, IF notify THEN 1 ELSE 0, op, NoArgs)

pointerVars == <<isDragging, activePointerId, lastX, lastY>>

reset ==
  /\ LET c == [radius |-> Num(baseRadius), theta |-> 0, phi |-> halfPi,
               fov |-> setFov(fov, Num(baseFov))]
     IN  CommitCam(c, TRUE, "reset")
  /\ UNCHANGED pointerVars

zoomIn ==
  /\ CommitCam(zoomInStep(Cam), TRUE, "zoomIn")
  /\ UNCHANGED pointerVars

zoomOut ==
  /\ CommitCam(zoomOutStep(Cam), TRUE, "zoomOut")
  /\ UNCHANGED pointerVars

\* event.deltaY of the wheel events
WheelDeltas == {-100, 0, 100}

onWheel(deltaY) ==
  /\ IF deltaY > 0
     THEN CommitCam(zoomOutStep(Cam), TRUE, "zoomOut")
     ELSE CommitCam(zoomInStep(Cam), TRUE, "zoomIn")
  /\ UNCHANGED pointerVars

\* variant: focusOn without its setFov(baseFov)
focusOn_keepsFov(regionBounds) ==
  /\ IF regionBounds \in {"null", "nonNumeric"}
     THEN CommitCam(Cam, FALSE, "focusOn")
     ELSE LET c == [radius |-> clampRadius(Num(desiredRadius(regionBounds))),
                    theta |-> centerTheta(regionBounds),
                    phi |-> clamp(centerPhi(regionBounds), minPhi, maxPhi),
                    fov |-> fov]
          IN  CommitCam(c, TRUE, "focusOn")
  /\ UNCHANGED pointerVars

focusOn(regionBounds) ==
  /\ IF regionBounds = "null"
     THEN CommitCam(Cam, FALSE, "focusOn")
     ELSE LET f == setFov(fov, Num(baseFov))
          IN  IF regionBounds = "nonNumeric"
              THEN CommitCam([Cam EXCEPT !.fov = f], FALSE, "focusOn")
              ELSE LET c == [radius |-> clampRadius(Num(desiredRadius(regionBounds))),
                             theta |-> centerTheta(regionBounds),
                             phi |-> clamp(centerPhi(regionBounds), minPhi, maxPhi),
                             fov |-> f]
                   IN  CommitCam(c, TRUE, "focusOn")
  /\ UNCHANGED pointerVars

\* the default of maxSteps
defaultMaxSteps == 32

\* variant: a loop pass that goes on zooming in after the target is met
ensureZoomPass_noBreak(r, minZoom, steps) ==
  IF r.done \/ 2 * r.calls >= steps
  THEN [r EXCEPT !.done = TRUE]
  ELSE [cam |-> zoomInStep(r.cam), calls |-> r.calls + 1, done |-> FALSE]

\* one pass of the loop of ensureZoomAtLeast, steps being in halves (i < steps
\* is 2 * i < 2 * steps): r holds the camera state, the value of i, which is
\* the number of zoomIn() calls made, and whether the loop has been left
ensureZoomPass(r, minZoom, steps) ==
  IF r.done \/ 2 * r.calls >= steps
       \/ getZoomFactor(r.cam.radius, r.cam.fov) >= minZoom
  THEN [r EXCEPT !.done = TRUE]
  ELSE [cam |-> zoomInStep(r.cam), calls |-> r.calls + 1, done |-> FALSE]

\* n passes of the loop in a row
RECURSIVE ensureZoomPasses(_, _, _, _)
ensureZoomPasses(r, minZoom, steps, n) ==
  IF r.done \/ n = 0
  THEN r
  ELSE IF n = 1
       THEN ensureZoomPass(r, minZoom, steps)
       ELSE CHOOSE q \in {ensureZoomPasses(h, minZoom, steps, n - n \div 2) :
                           h \in {ensureZoomPasses(r, minZoom, steps, n \div 2)}} : TRUE

\* the largest number of steps, in halves
stepLimit == 512

\* the loop of ensureZoomAtLeast from step i: the state it ends in and the
\* number of zoomIn() calls made; it is left within stepLimit / 2 + 1 passes
ensureZoomLoop(c, minZoom, i, steps) ==
  ensureZoomPasses([cam |-> c, calls |-> i, done |-> FALSE], minZoom, steps,
                   stepLimit \div 2 + 1)

\* Number(minZoomFactor) as the app and the pointer-driven runs pass it
MinZoomFactors == {Finite(0), Finite(6000)}

\* the arguments of any caller, maxSteps in halves: a target that is not
\* finite, negative, zero, the app's 6.0 and a factor the camera cannot reach,
\* with maxSteps -1, 0, 2.5, the default 32 and 300
ZoomCalls ==
  {<<NotFinite, 2 * defaultMaxSteps>>,
   <<Finite(-1000), 2 * defaultMaxSteps>>,
   <<Finite(0), 2 * defaultMaxSteps>>,
   <<Finite(6000), -2>>,
   <<Finite(6000), 0>>,
   <<Finite(6000), 5>>,
   <<Finite(6000), 2 * defaultMaxSteps>>,
   <<Finite(100000), 5>>,
   <<Finite(100000), 600>>}

\* ensureZoomAtLeast(minZoomFactor, { maxSteps }), maxSteps in halves
ensureZoomAtLeast(minZoomFactor, maxSteps) ==
  /\ LET args == [minZoomFactor |-> minZoomFactor, maxSteps |-> maxSteps]
     IN  IF ~minZoomFactor.finite \/ minZoomFactor.value <= 0
         THEN CommitCalls(Cam, 0, "ensureZoomAtLeast", args)
         ELSE \E r \in {ensureZoomLoop(Cam, minZoomFactor.value, 0,
                                        Max(0, Min(stepLimit, maxSteps)))} :
                CommitCalls(r.cam, r.calls, "ensureZoomAtLeast", args)
  /\ UNCHANGED pointerVars

\* event.pointerId, event.clientX and event.clientY of the pointer events;
\* activePointerId 0 is null
PointerIds == {1, 2}
ClientXs == {0}
ClientYs == {0, 100000}

onPointerDown(pointerId, clientX, clientY) ==
  /\ isDragging' = TRUE
  /\ activePointerId' = pointerId
  /\ lastX' = clientX
  /\ lastY' = clientY
  /\ CommitCam(Cam, FALSE, "pointerDown")

\* rotateSpeed * dragScale / Math.max(1, effectiveZoom), in 1e-6 rad per pixel
rotateStep(r, f) ==
  LET dragScale == (rotateSpeed * (Val(r) \div 1000)) \div (baseRadius \div 1000)
  IN  (dragScale * 1000) \div Max(1000, getZoomFactor(r, f))

onPointerMove(pointerId, clientX, clientY) ==
  IF ~isDragging \/ pointerId # activePointerId
  THEN /\ CommitCam(Cam, FALSE, "pointerMove")
       /\ UNCHANGED pointerVars
  ELSE LET dx == clientX - lastX
           dy == clientY - lastY
           step == rotateStep(radius, fov)
           c == [Cam EXCEPT !.theta = @ - dx * step,
                            !.phi = clamp(@ - dy * step, minPhi, maxPhi)]
       IN  /\ CommitCam(c, TRUE, "pointerMove")
           /\ lastX' = clientX
           /\ lastY' = clientY
           /\ UNCHANGED <<isDragging, activePointerId>>

\* variant: any pointer that goes up ends the drag
onPointerUp_anyPointer(pointerId) ==
  /\ isDragging' = FALSE /\ activePointerId' = 0
  /\ UNCHANGED <<lastX, lastY>>
  /\ CommitCam(Cam, FALSE, "pointerUp")

onPointerUp(pointerId) ==
  /\ IF pointerId = activePointerId
     THEN isDragging' = FALSE /\ activePointerId' = 0
     ELSE UNCHANGED <<isDragging, activePointerId>>
  /\ UNCHANGED <<lastX, lastY>>
  /\ CommitCam(Cam, FALSE, "pointerUp")

\* the controller after its constructor; init() runs before the app sets
\* onChange, so nobody has been called
CameraInit ==
  /\ radius = Num(baseRadius)
  /\ theta = 0
  /\ phi = halfPi
  /\ fov = Num(baseFov)
  /\ isDragging = FALSE
  /\ activePointerId = 0
  /\ lastX = 0
  /\ lastY = 0
  /\ onChange = NotCalled
  /\ zoomArgs = NoArgs
  /\ camOp = "init"

-----------------------------------------------------------------------------
(* SelectionHighlight and the frames that drive it *)

\* highlights that may be created in one behaviour
MaxFlashes == 3
\* the clock stops advancing here
MaxTime == 800

\* durationMs as callers pass it: the app's 300, the default of flashGeometry
\* and a zero
Durations == {0, 300, 400}
\* the time that may pass between two steps, in ms
TimeSteps == {100, 200}

\* the feature collections the application flashes features of: the UK
\* regions and the local authority districts
DataUrls == {"uk-regions", "uk-local-authority-districts"}

\* the two LineSegments of highlight n
haloLines(n) == Obj(2 * n - 1, "halo", "highlight")
coreLines(n) == Obj(2 * n, "core", "highlight")

\* variant: t > 1
progressAtLeastOne_strict(nowMs, h) ==
  nowMs - h.startMs > h.durationMs

\* t >= 1 for t = (nowMs - h.startMs) / h.durationMs, as a double: dividing
\* by zero gives NaN for 0 / 0 and an infinity of the sign of the dividend
progressAtLeastOne(nowMs, h) ==
  LET elapsed == nowMs - h.startMs
  IN  IF h.durationMs > 0 THEN elapsed >= h.durationMs
      ELSE IF h.durationMs = 0 THEN elapsed > 0
      ELSE elapsed <= h.durationMs

\* opacity of haloMat and coreMat as flashGeometry creates them, in hundredths
baseOpacities == <<45, 85>>

\* 1000 * sin(k * pi / 60) for k in 0..30, rounded
SinTable ==
  [k \in 0..30 |->
    <<0, 52, 105, 156, 208, 259, 309, 358, 407, 454, 500, 545, 588, 629, 669,
      707, 743, 777, 809, 839, 866, 891, 914, 934, 951, 966, 978, 988, 995,
      999, 1000>>[k + 1]]

\* 1000 * Math.sin(t * Math.PI) for t = k / 60
sinPi(k) ==
  LET r == k % 120
  IN  IF r <= 30 THEN SinTable[r]
      ELSE IF r <= 60 THEN SinTable[60 - r]
      ELSE IF r <= 90 THEN -SinTable[r - 60]
      ELSE -SinTable[120 - r]

\* t = (nowMs - h.startMs) / h.durationMs in sixtieths, for a durationMs
\* that is not zero
progress(nowMs, h) ==
  IF h.durationMs > 0 THEN (60 * (nowMs - h.startMs)) \div h.durationMs
  ELSE -((60 * (nowMs - h.startMs)) \div (-h.durationMs))

\* variant: the pulse alone, without the fade
fadeTimesPulse_pulseOnly(k) == 36 * (150 + (85 * sinPi(k)) \div 100)

\* fade * pulse for t = k / 60 in units of 1 / 36000:
\* (1 - t) * (1 - t) * (0.15 + 0.85 * Math.sin(t * Math.PI))
fadeTimesPulse(k) == ((60 - k) * (60 - k) * (150 + (85 * sinPi(k)) \div 100)) \div 100

\* mat.opacity = baseOpacity * fade * pulse for each material of h, in
\* millionths: NaN when t is 0 / 0
materialOpacities(nowMs, h) ==
  IF h.durationMs = 0
  THEN [m \in DOMAIN baseOpacities |-> NotFinite]
  ELSE [m \in DOMAIN baseOpacities |->
         Finite((baseOpacities[m] * fadeTimesPulse(progress(nowMs, h)) * 10) \div 36)]

\* the state SelectionHighlight steps work on
HlState == [highlights |-> highlights, scene |-> scene, released |-> released,
            freed |-> {}, updated |-> {}, opacity |-> {}]

\* the loop of tick(nowMs) from index i down to 1: an expired highlight has its
\* objects removed from the scene and disposed and is spliced out, any other
\* has the opacity of its materials set
RECURSIVE tickLoop(_, _, _)
tickLoop(H, nowMs, i) ==
  IF i < 1 THEN H
  ELSE LET h == H.highlights[i]
       IN  IF progressAtLeastOne(nowMs, h)
           THEN tickLoop([H EXCEPT !.scene = @ \ Range(h.objects),
                                   !.released[h.id] = @ + 1,
                                   !.freed = @ \cup {h.id},
                                   !.highlights = SubSeq(@, 1, i - 1) \o SubSeq(@, i + 1, Len(@))],
                         nowMs, i - 1)
           ELSE tickLoop([H EXCEPT !.updated = @ \cup {h.id},
                                   !.opacity = @ \cup {[id |-> h.id,
                                       materials |-> materialOpacities(nowMs, h)]}],
                         nowMs, i - 1)

highlightFrame ==
  <<layers, initCalls, enabled, objects, data, dataPromise, fetches, iconSettled,
    labelSprites, globeRef, currentMaxScaleRank, currentMaxLabels, optionVars, workerVars, overlay,
    pending, status, last, camVars, predicateVars, frameVars, built, selected,
    layerHooks, removeTick>>

\* one frame of the render loop: the tick handler runs tick(performance.now())
tick ==
  /\ \E H \in {tickLoop(HlState, clock, Len(highlights))} :
       /\ highlights' = H.highlights
       /\ scene' = H.scene
       /\ released' = H.released
       /\ lastTick' = [op |-> "tick", nowMs |-> clock, freed |-> H.freed,
                       updated |-> H.updated, opacity |-> H.opacity,
                       replaced |-> FALSE]
  /\ UNCHANGED <<clock, flashed, highlightFrame, requestVars>>

\* what a flash step records: replaced tells whether a later flash had been
\* requested while the request that made this step was suspended
FlashTick(op, replaced) ==
  [op |-> op, nowMs |-> clock, freed |-> {}, updated |-> {}, opacity |-> {},
   replaced |-> replaced]

\* variant: only the core lines are added to the scene
Flash_coreOnly(hasLines, durationMs, op, replaced) ==
  /\ flashed < MaxFlashes
  /\ IF ~hasLines
     THEN UNCHANGED <<highlights, scene, flashed>>
     ELSE /\ flashed' = flashed + 1
          /\ scene' = scene \cup {coreLines(flashed')}
          /\ highlights' = Append(highlights,
               [id |-> flashed', objects |-> <<haloLines(flashed'), coreLines(flashed')>>,
                startMs |-> clock, durationMs |-> durationMs])
  /\ lastTick' = FlashTick(op, replaced)
  /\ UNCHANGED <<clock, released, highlightFrame>>

\* the body of flashGeometry(geometry, {durationMs}), run by step op: hasLines
\* tells whether the geometry yields line positions
Flash(hasLines, durationMs, op, replaced) ==
  /\ flashed < MaxFlashes
  /\ IF ~hasLines
     THEN UNCHANGED <<highlights, scene, flashed>>
     ELSE /\ flashed' = flashed + 1
          /\ scene' = scene \cup {haloLines(flashed'), coreLines(flashed')}
          /\ highlights' = Append(highlights,
               [id |-> flashed', objects |-> <<haloLines(flashed'), coreLines(flashed')>>,
                startMs |-> clock, durationMs |-> durationMs])
  /\ lastTick' = FlashTick(op, replaced)
  /\ UNCHANGED <<clock, released, highlightFrame>>

\* history: the suspended requests have been followed by a later flash
Supersede(rs) == [i \in 1..Len(rs) |-> [rs[i] EXCEPT !.replaced = TRUE]]

\* flashGeometry(geometry, {durationMs}) called by the application
flashGeometry(hasLines, durationMs) ==
  /\ Flash(hasLines, durationMs, "flash", FALSE)
  /\ flashRequests' = Supersede(flashRequests)
  /\ UNCHANGED <<geojsonCache, geoFetches>>

\* time passes between two steps
Advance(d) ==
  /\ clock + d <= MaxTime
  /\ clock' = clock + d
  /\ lastTick' = [op |-> "advance", nowMs |-> clock', freed |-> {}, updated |-> {},
                   opacity |-> {}, replaced |-> FALSE]
  /\ UNCHANGED <<highlights, scene, flashed, released, highlightFrame, requestVars>>

\* durationMs as any caller of flashGeometry may pass it, which is stored as
\* given: the values of Durations and a negative one
CallerDurations == Durations \cup {-300}

\* the last time a flash of the longest duration can start and still expire
\* within MaxTime
LatestFlash == MaxTime - 400

\* time passes without bound: the clock at MaxTime stands for every later
\* time, from which no highlight started by LatestFlash tells it apart
Elapse(d) ==
  /\ clock' = Min(clock + d, MaxTime)
  /\ lastTick' = [op |-> "advance", nowMs |-> clock', freed |-> {}, updated |-> {},
                   opacity |-> {}, replaced |-> FALSE]
  /\ UNCHANGED <<highlights, scene, flashed, released, highlightFrame, requestVars>>

HighlightInit ==
  /\ highlights = <<>>
  /\ clock = 0
  /\ flashed = 0
  /\ released = [n \in 1..MaxFlashes |-> 0]
  /\ lastTick = [op |-> "init", nowMs |-> 0, freed |-> {}, updated |-> {},
                  opacity |-> {}, replaced |-> FALSE]
  /\ geojsonCache = [u \in DataUrls |-> "absent"]
  /\ geoFetches = [u \in DataUrls |-> 0]
  /\ flashRequests = <<>>

-----------------------------------------------------------------------------
(* Caller-supplied predicates: filterFn, filterFeature, matchFn *)

\* features of one collection
MaxFeatures == 3

\* what the predicate does when called with a feature
PredicateOutcomes == {"true", "false", "throws"}

RECURSIVE SeqsUpTo(_, _)
\* the sequences over set of length at most n
SeqsUpTo(set, n) ==
  IF n = 0 THEN {<<>>}
  ELSE LET shorter == SeqsUpTo(set, n - 1)
       IN  shorter \cup {Append(q, x) : q \in shorter, x \in set}

\* Boolean(fn(feature)): the value returned, or an exception thrown
callPredicate(f) == [value |-> f = "true", threw |-> f = "throws"]

\* variant: the exception of the predicate is not caught
tryPredicate_rethrow(f) == callPredicate(f)

\* try { return Boolean(fn(feature)); } catch { return false; }
tryPredicate(f) ==
  IF callPredicate(f).threw
  THEN [value |-> FALSE, threw |-> FALSE]
  ELSE callPredicate(f)

\* Array.prototype.filter with the guarded predicate as callback, and the
\* loops that skip a feature when safeFilter() is false, from feature i on:
\* the indices kept, and whether an exception left the loop
RECURSIVE filterFeatures(_, _)
filterFeatures(fs, i) ==
  IF i > Len(fs) THEN [kept |-> <<>>, threw |-> FALSE]
  ELSE LET r == tryPredicate(fs[i])
           rest == filterFeatures(fs, i + 1)
       IN  IF r.threw THEN [kept |-> <<>>, threw |-> TRUE]
           ELSE IF rest.threw THEN rest
           ELSE [kept |-> (IF r.value THEN <<i>> ELSE <<>>) \o rest.kept,
                 threw |-> FALSE]

\* Array.prototype.find with the guarded predicate as callback
RECURSIVE findFeature(_, _)
findFeature(fs, i) ==
  IF i > Len(fs) THEN [kept |-> <<>>, threw |-> FALSE]
  ELSE LET r == tryPredicate(fs[i])
       IN  IF r.threw THEN [kept |-> <<>>, threw |-> TRUE]
           ELSE IF r.value THEN [kept |-> <<i>>, threw |-> FALSE]
           ELSE findFeature(fs, i + 1)

\* a step that selects features: the features that go on to be drawn, and
\* whether an exception reached the caller
Select(op, r) ==
  /\ selection' = [op |-> op, kept |-> r.kept, threw |-> r.threw]
  /\ UNCHANGED <<features, rings, layerVars, optionVars, workerVars, overlay, last, camVars,
                 highlightVars, frameVars>>

\* FilteredBoundaryLayer.buildLineGeometries with a filterFn
FilteredBoundaryLayer_buildLineGeometries ==
  Select("buildLineGeometries", filterFeatures(features, 1))

\* buildPointsObject / buildLabelSprites of the point layers with a
\* filterFeature, every feature being a point in bounds
buildPointsObject == Select("buildPointsObject", filterFeatures(features, 1))

\* SelectionHighlight.flashGeoJsonFeature once the collection is loaded
flashGeoJsonFeature == Select("flashGeoJsonFeature", findFeature(features, 1))

\* rings of one polygon
MaxRings == 3

\* a ring: well formed, not an array, an array of fewer than two positions,
\* an array with a position missing (null), or an array of four positions
\* one of which has a coordinate that is not finite
RingKinds == {"ok", "notArray", "short", "missingPair", "nonFinite"}

\* BoundaryLayer.ringToLinePositions: no positions, the positions of all its
\* segments, those of the segments that do not touch the position that is not
\* finite (steps is NaN for the others, whose loop adds nothing), or a
\* TypeError when closed[i] or coords[0] is read as a pair and is null
ringToLinePositions(ring) ==
  CASE ring \in {"notArray", "short"} -> [positions |-> "none", threw |-> FALSE]
    [] ring = "missingPair" -> [positions |-> "none", threw |-> TRUE]
    [] ring = "nonFinite" -> [positions |-> "partial", threw |-> FALSE]
    [] ring = "ok" -> [positions |-> "all", threw |-> FALSE]

\* BoundaryLayer.createPolygonGeometry from ring i on: the rings that got a
\* geometry, and whether an exception left the loop
RECURSIVE createPolygonGeometry(_, _)
createPolygonGeometry(rs, i) ==
  IF i > Len(rs) THEN [kept |-> <<>>, threw |-> FALSE]
  ELSE LET r == ringToLinePositions(rs[i])
           rest == createPolygonGeometry(rs, i + 1)
       IN  IF r.threw THEN [kept |-> <<>>, threw |-> TRUE]
           ELSE IF rest.threw THEN rest
           ELSE [kept |-> (IF r.positions = "none" THEN <<>> ELSE <<i>>) \o rest.kept,
                 threw |-> FALSE]

\* BoundaryLayer.buildLineGeometries on a polygon of the loaded data
BoundaryLayer_buildLineGeometries ==
  Select("createPolygonGeometry", createPolygonGeometry(rings, 1))

\* Tessellation of a ring, with its positions on the equator: a position is
\* its longitude in units of 1e-5 degree, a point of the unit sphere is the
\* angle units + num/den of the same unit
UnitsPerDegree == 100000
FullTurn == 360 * UnitsPerDegree
HalfTurn == 180 * UnitsPerDegree

\* options.maxSegmentDegrees ?? 1 of SelectionHighlight, as maxSegmentRadians
maxSegmentDegrees == 1
maxSegmentRadians == maxSegmentDegrees * UnitsPerDegree

\* the least angle that is not below the 1e-6 rad of slerpUnit: 6 units are
\* 1.047e-6 rad, 5 units are 0.873e-6 rad
epsilonUnits == 6

RECURSIVE gcd(_, _)
gcd(a, b) == IF b = 0 THEN a ELSE gcd(b, a % b)

\* the point at angle units + num/den, with the angle in [0, 360) degrees and
\* the fraction in lowest terms
unitPoint(units, num, den) ==
  [units |-> units % FullTurn, num |-> num \div gcd(num, den),
   den |-> den \div gcd(num, den)]

\* latLonToUnitVector(0, lon)
latLonToUnitVector(lon) == unitPoint(lon, 0, 1)

\* 0 / 0 in every coordinate
NaNPoint == [units |-> 0, num |-> 0, den |-> 0]

\* Math.acos(clamp(dot(ua, ub), -1, 1)): the angle between two positions
angleBetween(lonA, lonB) ==
  Min((lonB - lonA) % FullTurn, (lonA - lonB) % FullTurn)

\* the point that lies the fraction n/d of omega from position lonA towards
\* position lonB on the shorter arc
arcPoint(lonA, lonB, omega, n, d) ==
  LET whole == n * (omega \div d) + (n * (omega % d)) \div d
      part == (n * (omega % d)) % d
  IN  IF (lonB - lonA) % FullTurn = omega
      THEN unitPoint(lonA + whole, part, d)
      ELSE IF part = 0 THEN unitPoint(lonA - whole, 0, 1)
      ELSE unitPoint(lonA - whole - 1, d - part, d)

\* slerpUnit(a, b, omega, t) with t = n/d: a itself below 1e-6 rad; the
\* normalised linear interpolation when sin(omega) is below 1e-6, which is a
\* at t = 0, b at t = 1, next to a before the middle and next to b after it,
\* and 0/0 in the middle of two antipodes; else the point of the arc
slerpUnit(lonA, lonB, omega, n, d) ==
  IF omega < epsilonUnits THEN latLonToUnitVector(lonA)
  ELSE IF omega > HalfTurn - epsilonUnits
  THEN IF 2 * n < d THEN latLonToUnitVector(lonA)
       ELSE IF 2 * n > d THEN latLonToUnitVector(lonB)
       ELSE IF omega = HalfTurn THEN NaNPoint
       ELSE arcPoint(lonA, lonB, omega, n, d)
  ELSE arcPoint(lonA, lonB, omega, n, d)

\* variant: Math.floor in place of Math.ceil
edgeSteps_floor(omega) == Max(1, omega \div maxSegmentRadians)

\* Math.max(1, Math.ceil(omega / this.maxSegmentRadians))
edgeSteps(omega) ==
  Max(1, (omega + maxSegmentRadians - 1) \div maxSegmentRadians)

\* the inner loop of ringToLinePositions for one edge: a segment
\* <<p0, p1>> for each s in 0..steps-1
edgeSegments(lonA, lonB) ==
  LET omega == angleBetween(lonA, lonB)
      steps == edgeSteps(omega)
  IN  [s \in 1..steps |->
        <<slerpUnit(lonA, lonB, omega, s - 1, steps),
          slerpUnit(lonA, lonB, omega, s, steps)>>]

\* closed of ringToLinePositions: the first position is pushed after the
\* last one unless they are equal
closedRing(coords) ==
  IF coords[1] # coords[Len(coords)] THEN Append(coords, coords[1]) ELSE coords

\* SelectionHighlight.ringToLinePositions(coords, radius): the segments it
\* pushes, edge by edge
ringSegments(coords) ==
  IF Len(coords) < 2 THEN <<>>
  ELSE [i \in 1..(Len(closedRing(coords)) - 1) |->
         edgeSegments(closedRing(coords)[i], closedRing(coords)[i + 1])]

\* ringToLinePositions on the ring whose positions are in rings
SelectionHighlight_ringToLinePositions ==
  Select("ringToLinePositions", [kept |-> ringSegments(rings), threw |-> FALSE])

PredicateInit(collections, polygons) ==
  /\ features \in collections
  /\ rings \in polygons
  /\ selection = [op |-> "none", kept |-> <<>>, threw |-> FALSE]

-----------------------------------------------------------------------------
(* The status overlay, with the tokens as numbers *)

\* setStatus calls of one behaviour
MaxTokens == 8

\* ttlMs as the layers pass it: none, 2500, 5000 and 6000
TtlValues == {0, 2500, 5000, 6000}

\* the overlay after setStatus(text, {ttlMs}) with a text: statusToken
\* advances, the armed timer is cleared, the text is shown, and for ttlMs > 0
\* a timer holding the new token is armed.  timer and shown are tokens, 0
\* meaning no timer and no text; op and arg (history) are the call just made.
statusAfterSet(o, ttlMs) ==
  [statusToken |-> o.statusToken + 1,
   timer |-> IF ttlMs > 0 THEN o.statusToken + 1 ELSE 0,
   shown |-> o.statusToken + 1,
   op |-> "setStatus", arg |-> ttlMs]

\* variant: clearStatus clears whatever token it is given
statusAfterClear_anyToken(o, token) ==
  [o EXCEPT !.timer = 0, !.shown = 0, !.op = "clearStatus", !.arg = token]

\* the overlay after clearStatus(token), 0 being an undefined token
statusAfterClear(o, token) ==
  IF token = 0 \/ token # o.statusToken
  THEN [o EXCEPT !.op = "clearStatus", !.arg = token]
  ELSE [o EXCEPT !.timer = 0, !.shown = 0, !.op = "clearStatus", !.arg = token]

\* the overlay after the callback of the armed timer has run
statusAfterTimer(o) ==
  IF o.timer # o.statusToken
  THEN [o EXCEPT !.timer = 0, !.op = "timer", !.arg = o.timer]
  ELSE [o EXCEPT !.timer = 0, !.shown = 0, !.op = "timer", !.arg = o.timer]

StatusStep ==
  UNCHANGED <<layerVars, optionVars, workerVars, last, camVars, highlightVars, predicateVars,
              frameVars>>

\* setStatus(text, {ttlMs}) called by anyone
SetStatus(ttlMs) ==
  /\ overlay.statusToken < MaxTokens
  /\ overlay' = statusAfterSet(overlay, ttlMs)
  /\ StatusStep

\* clearStatus(token) called by the holder of a token handed out before, or
\* by a caller that got none
ClearStatus(token) ==
  /\ token <= overlay.statusToken
  /\ overlay' = statusAfterClear(overlay, token)
  /\ StatusStep

\* the armed timer fires
StatusTimerFires ==
  /\ overlay.timer # 0
  /\ overlay' = statusAfterTimer(overlay)
  /\ StatusStep

OverlayInit ==
  overlay = [statusToken |-> 0, timer |-> 0, shown |-> 0, op |-> "init", arg |-> 0]

-----------------------------------------------------------------------------
(* The service worker *)

\* fetch events one behaviour handles
MaxFetchEvents == 2

\* `situation-static-${CACHE_VERSION}` and the cache of the version before
STATIC_CACHE == "situation-static-v39"
OLD_CACHE == "situation-static-v38"
CacheNames == {STATIC_CACHE, OLD_CACHE}

\* url.origin: self.location.origin, the allowlisted origin and another one
Origins == {"self", "https://unpkg.com", "https://example.org"}

\* url.pathname as its directories, the name of the file and its extension
Path(dirs, name, ext) == [dirs |-> dirs, name |-> name, ext |-> ext]

Paths ==
  {Path(<<>>, "index", "html"),
   Path(<<"api">>, "items", ""),
   Path(<<"src", "data-src">>, "ne_10m_ports", "zip"),
   Path(<<"src", "data-src">>, "README", "md"),
   Path(<<"downloads">>, "export", "zip")}

\* the requests of fetch events: request.method, the origin, pathname and
\* search of request.url, whether request.headers has authorization, and
\* request.mode
Requests ==
  [method : {"GET", "POST"}, origin : Origins, path : Paths,
   search : {"", "?v=1"}, authorization : BOOLEAN, mode : {"navigate", "cors"}]

\* what fetch(request) does: a response that is ok, one that is not, or a
\* rejection
NetworkOutcomes == {"ok", "notOk", "rejects"}

\* the key a request is stored and matched under: its URL
Key(origin, path, search) == [origin |-> origin, path |-> path, search |-> search]
keyOf(request) == Key(request.origin, request.path, request.search)

\* ASSETS: the app shell, of which the model keeps index.html
ASSETS == {Key("self", Path(<<>>, "index", "html"), "")}

\* new URL('index.html', SCOPE).toString()
shellKey == Key("self", Path(<<>>, "index", "html"), "")

CACHEABLE_THIRD_PARTY_ORIGINS == {"https://unpkg.com"}

\* url.origin === self.location.origin
isSameOrigin(request) == request.origin = "self"

\* url.pathname.startsWith('/api/')
startsWithApi(path) == Len(path.dirs) >= 1 /\ path.dirs[1] = "api"

\* path.endsWith('.zip')
endsWithZip(path) == path.ext = "zip"

\* path.includes('/src/data-src/')
includesDataSrc(path) ==
  \E i \in 1..(Len(path.dirs) - 1) :
    path.dirs[i] = "src" /\ path.dirs[i + 1] = "data-src"

\* variant: only the archives by extension are left to the network
isDatasetArchive_zipOnly(path) == endsWithZip(path)

\* path.endsWith('.zip') || path.includes('/src/data-src/')
isDatasetArchive(path) == endsWithZip(path) \/ includesDataSrc(path)

\* caches.match(key): a response stored under the key in any cache
cachesMatch(storage, key) == \E c \in CacheNames : key \in storage[c]

\* the fetch handler up to its cache-first branch: "default" when it returns
\* without respondWith, "network" when it responds with fetch(request),
\* "cacheFirst" when it reaches the cache-first branch
fetchRoute(request) ==
  IF request.method # "GET" THEN "default"
  ELSE IF isSameOrigin(request)
          /\ (startsWithApi(request.path) \/ request.search # "")
  THEN "network"
  ELSE IF request.authorization THEN "network"
  ELSE IF ~isSameOrigin(request)
          /\ request.origin \notin CACHEABLE_THIRD_PARTY_ORIGINS
  THEN "network"
  ELSE IF isSameOrigin(request) /\ isDatasetArchive(request.path) THEN "network"
  ELSE "cacheFirst"

\* the cache-first branch: the cached response if there is one, else the
\* response of the network, which is put into STATIC_CACHE when it is ok;
\* when fetch rejects, the cached shell for a navigation and undefined
\* otherwise
cacheFirst(storage, request, net) ==
  IF cachesMatch(storage, keyOf(request))
  THEN [storage |-> storage, matched |-> {keyOf(request)}, fetched |-> FALSE,
        put |-> {}, response |-> "cached"]
  ELSE IF net = "ok"
  THEN [storage |-> [storage EXCEPT ![STATIC_CACHE] = @ \cup {keyOf(request)}],
        matched |-> {keyOf(request)}, fetched |-> TRUE, put |-> {keyOf(request)},
        response |-> "network"]
  ELSE IF net = "notOk"
  THEN [storage |-> storage, matched |-> {keyOf(request)}, fetched |-> TRUE,
        put |-> {}, response |-> "network"]
  ELSE IF request.mode = "navigate"
  THEN [storage |-> storage, matched |-> {keyOf(request), shellKey},
        fetched |-> TRUE, put |-> {},
        response |-> IF cachesMatch(storage, shellKey) THEN "cachedShell"
                     ELSE "undefined"]
  ELSE [storage |-> storage, matched |-> {keyOf(request)}, fetched |-> TRUE,
        put |-> {}, response |-> "undefined"]

\* what the fetch handler does with a request, net being what fetch(request)
\* does if it is called
handleFetch(storage, request, net) ==
  IF fetchRoute(request) = "cacheFirst" THEN cacheFirst(storage, request, net)
  ELSE [storage |-> storage, matched |-> {},
        fetched |-> fetchRoute(request) = "network", put |-> {},
        response |-> IF fetchRoute(request) = "default" THEN "default"
                     ELSE IF net = "rejects" THEN "networkError" ELSE "network"]

NoFetchEvent ==
  [handled |-> FALSE, request |-> <<>>, net |-> "", before |-> {}, matched |-> {},
   fetched |-> FALSE, put |-> {}, response |-> ""]

workerFrame ==
  <<layerVars, optionVars, overlay, last, camVars, highlightVars, predicateVars,
    frameVars>>

\* the install event: cache.addAll(ASSETS) adds every asset or, when a request
\* fails, none and the installation fails
onInstall(ok) ==
  /\ worker.state = "installing"
  /\ cacheStorage' = IF ok THEN [cacheStorage EXCEPT ![STATIC_CACHE] = @ \cup ASSETS]
                     ELSE cacheStorage
  /\ worker' = [worker EXCEPT !.state = IF ok THEN "installed" ELSE "redundant"]
  /\ UNCHANGED <<fetchEvent, workerFrame>>

\* the activate event: every situation-static- cache but STATIC_CACHE is
\* deleted
onActivate ==
  /\ worker.state = "installed"
  /\ cacheStorage' = [c \in CacheNames |->
                        IF c # STATIC_CACHE THEN {} ELSE cacheStorage[c]]
  /\ worker' = [worker EXCEPT !.state = "activated"]
  /\ UNCHANGED <<fetchEvent, workerFrame>>

\* a fetch event of the activated worker
onFetch(request, net) ==
  /\ worker.state = "activated"
  /\ worker.fetches < MaxFetchEvents
  /\ LET r == handleFetch(cacheStorage, request, net)
     IN  /\ cacheStorage' = r.storage
         /\ fetchEvent' = [handled |-> TRUE, request |-> request, net |-> net,
                           before |-> cacheStorage[STATIC_CACHE],
                           matched |-> r.matched, fetched |-> r.fetched,
                           put |-> r.put, response |-> r.response]
  /\ worker' = [worker EXCEPT !.fetches = @ + 1]
  /\ UNCHANGED workerFrame

\* the worker is installing; the cache of the version before holds what that
\* version stored
WorkerInit ==
  /\ cacheStorage =
       [c \in CacheNames |->
         IF c = OLD_CACHE
         THEN {shellKey, Key("self", Path(<<"api">>, "items", ""), "")}
         ELSE {}]
  /\ worker = [state |-> "installing", fetches |-> 0]
  /\ fetchEvent = NoFetchEvent

-----------------------------------------------------------------------------
(* SelectionHighlight: the flash requests *)

\* flashGeoJsonFeature calls that may be suspended at a time
MaxRequests == 2

\* a GeoJSON geometry: its type ("none": no geometry object) and, for the
\* polygon types, its rings
Geometry(type, rs) == [type |-> type, rings |-> rs]

\* the geometries flashed: none, a point, a polygon without rings, a polygon
\* whose only ring has one position, polygons of one and two well-formed
\* rings, and a polygon with a ring that lacks a position
FlashGeometries ==
  {Geometry("none", <<>>), Geometry("Point", <<>>), Geometry("Polygon", <<>>),
   Geometry("Polygon", <<"short">>), Geometry("Polygon", <<"ok">>),
   Geometry("MultiPolygon", <<"ok", "ok">>),
   Geometry("Polygon", <<"ok", "missingPair">>)}

\* the geometry of the feature a flashGeoJsonFeature request finds: none (no
\* feature, or a feature without geometry) or a polygon
RequestGeometries == {Geometry("none", <<>>), Geometry("Polygon", <<"ok">>)}

\* SelectionHighlight.geometryToLinePositions(geometry, radius) has positions;
\* a TypeError raised in a ring leaves flashGeometry before anything is added
geometryToLinePositions(geometry) ==
  IF geometry.type \notin {"Polygon", "MultiPolygon"}
  THEN FALSE
  ELSE LET r == createPolygonGeometry(geometry.rings, 1)
       IN  ~r.threw /\ r.kept # <<>>

\* the bounds passed to flashBounds: none, a box with a field that is not a
\* finite number, and a box of four finite numbers
BoundsKinds == {"null", "nonFinite", "box"}

\* flashBounds(bounds, {durationMs}): the outline of the box is sampled into
\* one ring of 4 * (samplesPerEdge + 1) positions
flashBounds(bounds, durationMs) ==
  /\ Flash(bounds = "box" /\ geometryToLinePositions(Geometry("Polygon", <<"ok">>)),
           durationMs, "flashBounds", FALSE)
  /\ flashRequests' = Supersede(flashRequests)
  /\ UNCHANGED <<geojsonCache, geoFetches>>

\* a suspended request can go on: the promise it awaits is settled
Settled(w) == geojsonCache[w.url] \in {"fulfilled", "rejected"}

\* no continuation is runnable
FlashIdle == \A i \in 1..Len(flashRequests) : ~Settled(flashRequests[i])

\* fetch() calls per dataUrl in one behaviour
MaxGeoFetches == 2

\* variant: a promise that was rejected is not taken from the cache
loadGeoJson_retry(cache, count, dataUrl) ==
  IF cache[dataUrl] \in {"absent", "rejected"}
  THEN [cache |-> [cache EXCEPT ![dataUrl] = "pending"],
        count |-> [count EXCEPT ![dataUrl] = @ + 1]]
  ELSE [cache |-> cache, count |-> count]

\* loadGeoJson(dataUrl): the promise in the cache is returned, whatever its
\* state; without one, fetch() is called and its promise is cached
loadGeoJson(cache, count, dataUrl) ==
  IF cache[dataUrl] = "absent"
  THEN [cache |-> [cache EXCEPT ![dataUrl] = "pending"],
        count |-> [count EXCEPT ![dataUrl] = @ + 1]]
  ELSE [cache |-> cache, count |-> count]

\* flashGeoJsonFeature({dataUrl, matchFn, durationMs}) up to its await:
\* loadGeoJson() returns the cached promise or starts the fetch and caches
\* its promise; geometry is the geometry of the feature matchFn accepts
flashGeoJsonFeature_call(dataUrl, geometry, durationMs) ==
  /\ Len(flashRequests) < MaxRequests
  /\ \E r \in {loadGeoJson(geojsonCache, geoFetches, dataUrl)} :
       /\ r.count[dataUrl] <= MaxGeoFetches
       /\ geojsonCache' = r.cache
       /\ geoFetches' = r.count
  /\ flashRequests' = Append(Supersede(flashRequests),
                             [url |-> dataUrl, geometry |-> geometry,
                              durationMs |-> durationMs, replaced |-> FALSE])
  /\ lastTick' = FlashTick("request", FALSE)
  /\ UNCHANGED <<highlights, scene, flashed, clock, released, highlightFrame>>

\* the fetch of a feature collection succeeds or fails
GeoJsonResolve(dataUrl) ==
  /\ geojsonCache[dataUrl] = "pending"
  /\ geojsonCache' = [geojsonCache EXCEPT ![dataUrl] = "fulfilled"]
  /\ lastTick' = FlashTick("loaded", FALSE)
  /\ UNCHANGED <<highlights, scene, flashed, clock, released, highlightFrame,
                 flashRequests, geoFetches>>

GeoJsonReject(dataUrl) ==
  /\ geojsonCache[dataUrl] = "pending"
  /\ geojsonCache' = [geojsonCache EXCEPT ![dataUrl] = "rejected"]
  /\ lastTick' = FlashTick("loadFailed", FALSE)
  /\ UNCHANGED <<highlights, scene, flashed, clock, released, highlightFrame,
                 flashRequests, geoFetches>>

\* flashGeoJsonFeature from its await on, for the first request that can go
\* on: a rejected load throws, a collection without the feature or a feature
\* without geometry returns, anything else goes to flashGeometry
flashGeoJsonFeature_resume ==
  /\ ~FlashIdle
  /\ LET i == CHOOSE j \in 1..Len(flashRequests) :
                /\ Settled(flashRequests[j])
                /\ \A k \in 1..(j - 1) : ~Settled(flashRequests[k])
         w == flashRequests[i]
     IN  /\ Flash(/\ geojsonCache[w.url] = "fulfilled"
                  /\ w.geometry.type # "none"
                  /\ geometryToLinePositions(w.geometry),
                  w.durationMs, "resume", w.replaced)
         /\ flashRequests' = SubSeq(flashRequests, 1, i - 1)
                               \o SubSeq(flashRequests, i + 1, Len(flashRequests))
  /\ UNCHANGED <<geojsonCache, geoFetches>>

-----------------------------------------------------------------------------
(* Specifications *)

-----------------------------------------------------------------------------
(* GlobeRenderer: the render loop and its tick handlers *)

\* handlers registered at a time, and frames of one behaviour
MaxHandlers == 3
MaxFrames == 3

\* what a call of a handler does
HandlerKinds == {"returns", "throws"}

\* variant: the handler is called outside any try block
tryHandler_rethrow(h) == [caught |-> 0, threw |-> h = "throws"]

\* try { handler({ nowMs, deltaMs }); } catch { }
tryHandler(h) == [caught |-> IF h = "throws" THEN 1 ELSE 0, threw |-> FALSE]

\* the for loop of renderLoop from handler i on: the handlers called, the
\* exceptions caught, and whether an exception left the loop
RECURSIVE runHandlers(_, _)
runHandlers(hs, i) ==
  IF i > Len(hs) THEN [ran |-> <<>>, caught |-> 0, threw |-> FALSE]
  ELSE LET r == tryHandler(hs[i])
           rest == runHandlers(hs, i + 1)
       IN  IF r.threw THEN [ran |-> <<i>>, caught |-> 0, threw |-> TRUE]
           ELSE [ran |-> <<i>> \o rest.ran, caught |-> r.caught + rest.caught,
                 threw |-> rest.threw]

FrameStep ==
  UNCHANGED <<layerVars, optionVars, workerVars, overlay, last, camVars, highlightVars, predicateVars>>

\* the calls renderLoop() makes, in their order: the handlers of the for
\* loop, this.controls.update(), renderer.render() and
\* requestAnimationFrame(); r is what the loop over the handlers did
frameOrder(r) ==
  [i \in 1..Len(r.ran) |-> "handler"]
    \o (IF r.threw THEN <<>>
        ELSE <<"controls.update", "render", "requestAnimationFrame">>)

\* renderLoop(), run by the browser when a frame is scheduled: the handlers,
\* then renderer.render() and requestAnimationFrame(renderLoop), which an
\* exception leaving the loop would not reach
renderLoop ==
  /\ animationId
  /\ frame.n < MaxFrames
  /\ \E r \in {runHandlers(tickHandlers, 1)} :
       /\ frame' = [n |-> frame.n + 1, handlers |-> Len(tickHandlers),
                    ran |-> r.ran, caught |-> r.caught, drawn |-> ~r.threw,
                    order |-> frameOrder(r)]
       /\ animationId' = ~r.threw
  /\ UNCHANGED tickHandlers
  /\ FrameStep

\* addTickHandler(handler) with a function
addTickHandler(h) ==
  /\ Len(tickHandlers) < MaxHandlers
  /\ tickHandlers' = Append(tickHandlers, h)
  /\ UNCHANGED <<animationId, frame>>
  /\ FrameStep

\* removeTickHandler(handler) for the handler at index i
removeTickHandler(i) ==
  /\ i \in 1..Len(tickHandlers)
  /\ tickHandlers' = SubSeq(tickHandlers, 1, i - 1)
                       \o SubSeq(tickHandlers, i + 1, Len(tickHandlers))
  /\ UNCHANGED <<animationId, frame>>
  /\ FrameStep

\* stop(): cancelAnimationFrame
stop ==
  /\ animationId
  /\ animationId' = FALSE
  /\ UNCHANGED <<tickHandlers, frame>>
  /\ FrameStep

\* the renderer after init(): start() has scheduled the first frame
FrameInit ==
  /\ tickHandlers = <<>>
  /\ animationId = TRUE
  /\ frame = [n |-> 0, handlers |-> 0, ran |-> <<>>, caught |-> 0, drawn |-> FALSE,
             order |-> <<>>]

\* the state after construction, the options of the populated-places layer,
\* the feature collection and the polygon being drawn from the given sets
InitWith(ranks, caps, collections, polygons) ==
  /\ LayerInit
  /\ OptionsInit(ranks, caps)
  /\ CameraInit
  /\ HighlightInit
  /\ PredicateInit(collections, polygons)
  /\ FrameInit
  /\ OverlayInit
  /\ WorkerInit

Init == InitWith({appMaxScaleRank}, {appMaxLabels}, {<<>>}, {<<>>})

Next ==
  \/ \E l \in LayerIds : RegisterOnly(l)
  \/ \E l \in LayerIds : EnableLayer(l)
  \/ \E l \in LayerIds : DisableLayer(l)
  \/ \E l \in LayerIds, on \in BOOLEAN : ToggleLayer(l, on)
  \/ \E l \in LayerIds : RefreshLayer(l)
  \/ \E l \in LayerIds, i \in 1..MaxLoads : LoadResolve(l, i)
  \/ \E l \in LayerIds, i \in 1..MaxLoads : LoadReject(l, i)
  \/ \E l \in LayerIds : IconSettle(l)
  \/ RunCallback
  \/ \E z \in ZoomFactors : updateDensityForZoom(z)
  \/ StatusTimeout

Spec == Init /\ [][Next]_vars

CameraNext ==
  \/ reset
  \/ zoomIn
  \/ zoomOut
  \/ \E deltaY \in WheelDeltas : onWheel(deltaY)
  \/ \E b \in FocusArgs : focusOn(b)
  \/ \E z \in MinZoomFactors : ensureZoomAtLeast(z, 2 * defaultMaxSteps)
  \/ \E id \in PointerIds, x \in ClientXs, y \in ClientYs : onPointerDown(id, x, y)
  \/ \E id \in PointerIds, x \in ClientXs, y \in ClientYs : onPointerMove(id, x, y)
  \/ \E id \in PointerIds : onPointerUp(id)

CameraSpec == Init /\ [][CameraNext]_vars

\* the zoom operations alone, ensureZoomAtLeast with any arguments
ZoomNext ==
  \/ reset
  \/ zoomIn
  \/ zoomOut
  \/ \E b \in FocusArgs : focusOn(b)
  \/ \E a \in ZoomCalls : ensureZoomAtLeast(a[1], a[2])

ZoomSpec == Init /\ [][ZoomNext]_vars

HighlightNext ==
  \/ tick
  \/ \E hasLines \in BOOLEAN, durationMs \in Durations : flashGeometry(hasLines, durationMs)
  \/ \E d \in TimeSteps : Advance(d)

HighlightSpec == Init /\ [][HighlightNext]_vars

\* the flash requests of the application, which passes durationMs 300, with
\* the loads they wait for and the frames, which are further apart than a
\* flash lasts; an event is taken when no continuation is runnable
FlashNext ==
  \/ flashGeoJsonFeature_resume
  \/ FlashIdle /\ tick
  \/ FlashIdle /\ Advance(400)
  \/ \E g \in FlashGeometries :
       FlashIdle /\ flashGeometry(geometryToLinePositions(g), 300)
  \/ \E b \in BoundsKinds : FlashIdle /\ flashBounds(b, 300)
  \/ \E u \in DataUrls, g \in RequestGeometries :
       FlashIdle /\ flashGeoJsonFeature_call(u, g, 300)
  \/ \E u \in DataUrls : FlashIdle /\ GeoJsonResolve(u)
  \/ \E u \in DataUrls : FlashIdle /\ GeoJsonReject(u)

FlashSpec == Init /\ [][FlashNext]_vars

\* the status overlay alone, called with any token
StatusNext ==
  \/ \E ttlMs \in TtlValues : SetStatus(ttlMs)
  \/ \E token \in 0..MaxTokens : ClearStatus(token)
  \/ StatusTimerFires

StatusSpec == Init /\ [][StatusNext]_vars

\* the highlights under a render loop that never stops: requestAnimationFrame
\* runs the tick handler once per frame and performance.now() grows without
\* bound between the frames
HighlightLiveNext ==
  \/ tick
  \/ \E d \in TimeSteps : Elapse(d)
  \/ \E hasLines \in BOOLEAN, durationMs \in CallerDurations :
       clock <= LatestFlash /\ flashGeometry(hasLines, durationMs)

HighlightLiveSpec ==
  /\ Init
  /\ [][HighlightLiveNext]_vars
  /\ WF_vars(tick)
  /\ WF_vars(\E d \in TimeSteps : Elapse(d))

\* updateDensityForZoom alone, over the options a layer may be built with
DensityInit == InitWith(ScaleRanks, LabelCaps, {<<>>}, {<<>>})

DensityNext == \E z \in TierEdges : updateDensityForZoom(z)

DensitySpec == DensityInit /\ [][DensityNext]_vars

\* the predicate-driven selections over every small feature collection
PredicateSpecInit ==
  InitWith({appMaxScaleRank}, {appMaxLabels},
           SeqsUpTo(PredicateOutcomes, MaxFeatures), {<<>>})

PredicateNext ==
  \/ FilteredBoundaryLayer_buildLineGeometries
  \/ buildPointsObject
  \/ flashGeoJsonFeature

PredicateSpec == PredicateSpecInit /\ [][PredicateNext]_vars

\* the geometry of every small polygon
GeometryInit ==
  InitWith({appMaxScaleRank}, {appMaxLabels}, {<<>>}, SeqsUpTo(RingKinds, MaxRings))

GeometryNext == BoundaryLayer_buildLineGeometries

GeometrySpec == GeometryInit /\ [][GeometryNext]_vars

\* positions of one ring
MaxPositions == 3

\* longitudes of the positions: edges of less than 1e-6 rad, of one, two and
\* three segments, and edges that join two antipodes or nearly so
Longitudes == {0, 3, 100000, 250000, 17999997, HalfTurn}

\* ringToLinePositions alone, over every small ring
TessellateInit ==
  InitWith({appMaxScaleRank}, {appMaxLabels}, {<<>>},
           SeqsUpTo(Longitudes, MaxPositions))

TessellateNext == SelectionHighlight_ringToLinePositions

TessellateSpec == TessellateInit /\ [][TessellateNext]_vars

\* the time between two frames, in ms
FrameMs == 20
\* flashes of one behaviour under the frame clock
OpacityFlashes == 2
\* durationMs of the application's flashes and the default of flashGeometry
FlashDurations == {300, 400}

\* the highlights under a frame clock: a tick may run every FrameMs
OpacityNext ==
  \/ tick
  \/ Advance(FrameMs)
  \/ \E durationMs \in FlashDurations :
       flashed < OpacityFlashes /\ flashGeometry(TRUE, durationMs)

OpacitySpec == Init /\ [][OpacityNext]_vars

\* the service worker alone
WorkerNext ==
  \/ \E ok \in BOOLEAN : onInstall(ok)
  \/ onActivate
  \/ \E request \in Requests, net \in NetworkOutcomes : onFetch(request, net)

WorkerSpec == Init /\ [][WorkerNext]_vars

\* the render loop and the registration of tick handlers
FrameNext ==
  \/ renderLoop
  \/ \E h \in HandlerKinds : addTickHandler(h)
  \/ \E i \in 1..MaxHandlers : removeTickHandler(i)
  \/ stop

FrameSpec == Init /\ [][FrameNext]_vars

\* register() alone, with any of the layer objects
RegistryNext == \E layer \in Instances : Register(layer)

RegistrySpec == Init /\ [][RegistryNext]_vars

-----------------------------------------------------------------------------
(* Claims about the layer lifecycle *)

\* C1: in every reachable state a layer whose enabled flag is false owns no
\* render object (objects.length = 0); in particular right after disableLayer
\* on an enabled layer.
C1_DisabledOwnsNothing == \A l \in LayerIds : ~enabled[l] => objects[l] = <<>>

\* C1 witness: disableLayer has just run on an enabled layer that owned objects
C1_Witness ==
  /\ last.op = "disableLayer" /\ last.was /\ last.pre > 0
  /\ ~enabled[last.id] /\ objects[last.id] = <<>>

\* C2: when the load is fulfilled while the layer is disabled, the enable
\* callback adds nothing to the scene, leaves the owned-object list empty and
\* does not fail.
C2_DisabledCallbackAddsNothing ==
  [][(last'.op = "callback" /\ last'.kind = "enable" /\ last'.ok /\ ~enabled[last'.id])
       => /\ scene' = scene
          /\ objects'[last'.id] = <<>>
          /\ last'.result = "skipped"]_vars

\* C2 witness: an enable callback ran on fulfilment while its layer was disabled
C2_Witness ==
  /\ last.op = "callback" /\ last.kind = "enable" /\ last.ok /\ ~last.was
  /\ ~enabled[last.id]

\* C3: the callback of a superseded enable (a later enable() of the same layer
\* was called before it ran) discards its result: it adds nothing to the scene.
C3_SupersededCallbackDiscards ==
  [][(last'.op = "callback" /\ last'.kind = "enable" /\ last'.stale) => scene' = scene]_vars

\* C4: at most one data load of a layer is in flight at any time.
C4_OneLoadInFlight ==
  \A l \in LayerIds : Cardinality({i \in 1..Len(fetches[l]) : fetches[l][i] = "pending"}) <= 1

\* C5: enableLayer on an enabled layer and disableLayer on a disabled layer
\* change nothing: no layer method runs, no callback is attached, no load starts.
C5_RepeatedToggleIsNoOp ==
  [][(\/ last'.op \in {"enableLayer", "toggleOn"} /\ enabled[last'.id]
      \/ last'.op \in {"disableLayer", "toggleOff"} /\ ~enabled[last'.id])
       => UNCHANGED layerVars]_vars

\* C5 witness: enableLayer was called on a layer already enabled, and after its
\* load resolved the scene holds one set of its objects
C5_Witness ==
  /\ last.op \in {"enableLayer", "toggleOn"}
  /\ last.was
  /\ mapHas(layers, last.id)
  /\ enabled[last.id]
  /\ objects[last.id] # <<>>

\* C13: updateDensityForZoom rebuilds the labels only if the selected rank
\* cutoff and label cap differ from the ones applied before, and a call with
\* a zoom factor of the tier of the call before it disposes of and creates no
\* label object.
C13_RebuildOnlyOnTierChange ==
  [][last'.op = "updateDensityForZoom" =>
       LET z == zoomOrOne(last'.zoom)
           applied == [rank |-> currentMaxScaleRank, labels |-> currentMaxLabels]
           sameTier == last.op = "updateDensityForZoom"
                         /\ \A e \in {1400, 2200, 3200, 4800, 6500, 8500, 10500} :
                              (zoomOrOne(last.zoom) < e) <=> (z < e)
       IN  /\ last'.result = "rebuilt" => desiredDensity(z) # applied
           /\ (sameTier \/ desiredDensity(z) = applied)
                => /\ last'.result # "rebuilt"
                   /\ UNCHANGED <<scene, objects, labelSprites, currentMaxScaleRank,
                                  currentMaxLabels>>]_vars

\* a second zoom factor of the first tier reached the enabled, loaded layer,
\* whose labels are in the scene
C13_Witness ==
  /\ last.op = "updateDensityForZoom"
  /\ last.zoom = 1300
  /\ currentMaxLabels = 140
  /\ last.result = "none"
  /\ enabled[last.id] /\ data[last.id]
  /\ labelSprites[last.id] # <<>>
  /\ Range(labelSprites[last.id]) \subseteq scene

\* C14: for every maxScaleRank and maxLabels the rank cutoff and the label cap
\* selected for a zoom factor do not decrease as the zoom factor grows.
C14_TiersNonDecreasing ==
  \A z1, z2 \in TierEdges :
    zoomOrOne(z1) <= zoomOrOne(z2) =>
      /\ desiredDensity(zoomOrOne(z1)).rank <= desiredDensity(zoomOrOne(z2)).rank
      /\ desiredDensity(zoomOrOne(z1)).labels <= desiredDensity(zoomOrOne(z2)).labels

\* a layer capped below the last tiers has been taken to a middle tier
C14_Witness ==
  /\ last.op = "updateDensityForZoom"
  /\ last.zoom = 3200
  /\ currentMaxScaleRank = 6 /\ maxScaleRank = 9
  /\ currentMaxLabels = 440 /\ maxLabels = 450

\* C15: a caller-supplied predicate is evaluated fail-closed in filtered
\* boundary layers, point-layer filters and highlight matching: a feature
\* whose predicate throws is left out, the features after it are still
\* evaluated, and no exception leaves the step.
C15_PredicatesFailClosed ==
  LET accepted == {i \in 1..Len(features) : features[i] = "true"}
  IN  selection.op # "none" =>
        /\ ~selection.threw
        /\ \A i \in 1..Len(features) :
             features[i] = "throws" => i \notin Range(selection.kept)
        /\ selection.op \in {"buildLineGeometries", "buildPointsObject"}
             => Range(selection.kept) = accepted
        /\ selection.op = "flashGeoJsonFeature"
             => Range(selection.kept) =
                  {i \in accepted : \A j \in accepted : i <= j}

\* the predicate threw on the first feature and accepted a later one, which
\* was selected
C15_Witness ==
  /\ selection.op # "none"
  /\ Len(features) = MaxFeatures
  /\ features[1] = "throws"
  /\ features[MaxFeatures] = "true"
  /\ MaxFeatures \in Range(selection.kept)

\* C16: when the data load of a layer fails, the completion of enable() adds
\* no object to the scene, leaves the layer's owned-object list empty, shows a
\* failure message whose clear timer is set (a finite time-to-live), and ends
\* in the rejection handler without touching the registry or the enabled
\* flags, so that later steps run as before.
C16_LoadFailureIsContained ==
  [][(last'.op = "callback" /\ last'.kind = "enable" /\ ~last'.ok) =>
       /\ scene' = scene
       /\ objects'[last'.id] = <<>>
       /\ status'.text = "failed"
       /\ status'.ttlMs > 0
       /\ last'.result = "failed"
       /\ UNCHANGED <<layers, enabled, data, dataPromise, fetches>>]_vars

\* C17: of the rings of a polygon, one that is not an array, has fewer than
\* two positions, lacks a coordinate pair or has a coordinate that is not
\* finite is skipped, and only that one: every well-formed ring gets its
\* geometry and no exception leaves the build.
C17_MalformedRingSkipped ==
  selection.op = "createPolygonGeometry" =>
    /\ ~selection.threw
    /\ Range(selection.kept) = {i \in 1..Len(rings) : rings[i] = "ok"}

\* C18: an exception thrown by a tick handler prevents neither the handlers
\* after it in that frame, nor the draw of that frame, nor the scheduling of
\* the next frame.
C18_FrameSurvivesHandlerFailure ==
  [][frame'.n # frame.n =>
       /\ frame'.ran = [i \in 1..Len(tickHandlers) |-> i]
       /\ frame'.caught = Cardinality({i \in 1..Len(tickHandlers) :
                                         tickHandlers[i] = "throws"})
       /\ frame'.drawn
       /\ animationId']_vars

\* a frame whose first handler threw ran a later handler, was drawn, and was
\* followed by another frame
C18_Witness ==
  /\ frame.n > 1
  /\ frame.caught > 0
  /\ frame.handlers > 1
  /\ Len(tickHandlers) = frame.handlers
  /\ tickHandlers[1] = "throws"
  /\ tickHandlers[frame.handlers] = "returns"
  /\ frame.ran[frame.handlers] = frame.handlers
  /\ frame.drawn

\* the positions of call c in the frame just run
callsOf(c) == {i \in 1..Len(frame.order) : frame.order[i] = c}

\* C37: every frame runs in the fixed order camera update, then the handlers
\* (label density, highlight animation, the per-frame hooks of the layers),
\* then exactly one draw: the camera is updated before any handler of the
\* frame runs and the draw comes after all of them.
C37_CameraUpdateBeforeHandlers ==
  frame.n > 0
    => /\ Cardinality(callsOf("render")) = 1
       /\ Cardinality(callsOf("controls.update")) = 1
       /\ \A u \in callsOf("controls.update"), h \in callsOf("handler") : u < h
       /\ \A d \in callsOf("render"), h \in callsOf("handler") : h < d

C20_RefreshOnlyWhileEnabled ==
  [][(last'.op = "refreshLayer" /\ (~mapHas(layers, last'.id) \/ ~enabled[last'.id]))
       => UNCHANGED layerVars]_vars

\* refreshLayer was called on a registered, disabled layer whose data is loaded
C20_Witness ==
  /\ last.op = "refreshLayer"
  /\ ~last.was
  /\ mapHas(layers, last.id)
  /\ ~enabled[last.id]
  /\ data[last.id]

\* C21: no render object is orphaned.  Every object a layer has added to the
\* scene is in its owned-object list until it is removed, so that once the
\* layer is disabled and none of its loads or callbacks is pending the scene
\* holds no object the layer created.
C21_NoOrphanedObjects ==
  \A l \in LayerIds :
    /\ {o \in scene : o.owner = l} \subseteq Range(objects[l])
    /\ (/\ ~enabled[l]
        /\ WaitersOf(St, l) = {}
        /\ \A i \in 1..Len(fetches[l]) : fetches[l][i] # "pending")
         => {o \in scene : o.owner = l} = {}

\* C22: a flashGeoJsonFeature request that was followed by a later flash
\* request while it waited for its feature collection adds no highlight and
\* no object to the scene when it goes on.
C22_ReplacedFlashAddsNothing ==
  [][(lastTick'.op = "resume" /\ lastTick'.replaced)
       => (scene' = scene /\ highlights' = highlights)]_vars

\* C24: the loading text set by an enable() is withdrawn once the load of
\* that enable() has settled and its completion has run: whenever the status
\* line shows a loading text, the enable() whose text it is (the one holding
\* the latest status token) is still waiting for its load.
C24_LoadingWithdrawn ==
  status.text = "loading" =>
    \E i \in 1..Len(pending) : pending[i].kind = "enable" /\ pending[i].token

\* C25: refreshLayer on an enabled layer whose data load has failed starts a
\* new load instead of going back to the failed one.
C25_RefreshRetriesFailedLoad ==
  [][(/\ last'.op = "refreshLayer"
      /\ mapHas(layers, last'.id)
      /\ enabled[last'.id]
      /\ ~data[last'.id]
      /\ dataPromise[last'.id] # 0
      /\ fetches[last'.id][dataPromise[last'.id]] = "rejected")
       => /\ Len(fetches'[last'.id]) = Len(fetches[last'.id]) + 1
          /\ dataPromise'[last'.id] = Len(fetches'[last'.id])
          /\ fetches'[last'.id][dataPromise'[last'.id]] = "pending"]_vars

\* C26: clearStatus(token) and the expiry of a message's timer clear the
\* status text only when their token is the latest one issued, and then they
\* do clear it; a text set by a later setStatus is cleared neither by the
\* clearStatus of an earlier caller nor by the timer of an earlier message.
C26_TokensProtectNewerStatus ==
  [][/\ (overlay'.op \in {"clearStatus", "timer"} /\ overlay'.arg # overlay.statusToken)
          => overlay'.shown = overlay.shown
     /\ (overlay'.op \in {"clearStatus", "timer"} /\ overlay'.arg = overlay.statusToken
           /\ overlay'.arg # 0)
          => overlay'.shown = 0
     /\ (overlay.shown # 0 /\ overlay'.shown = 0)
          => (overlay'.op \in {"clearStatus", "timer"}
                /\ overlay'.arg = overlay.statusToken)
     /\ overlay'.op = "setStatus" => overlay'.shown = overlay'.statusToken]_vars

\* while a later message is shown, a caller holding the token of an earlier
\* message has called clearStatus and the later message is still shown
C26_Witness ==
  /\ overlay.op = "clearStatus"
  /\ overlay.arg # 0
  /\ overlay.arg < overlay.statusToken
  /\ overlay.shown = overlay.statusToken
  /\ overlay.timer = overlay.statusToken

\* the populated-places layer of the application
places == "ne-populated-places-uk"

\* the tier selected by the most recent updateDensityForZoom call
selectedTier == [rank |-> selected.rank, labels |-> selected.labels]

\* this step has built the label sprites of the populated-places layer: the
\* callback of enable() has run to its end, or updateDensityForZoom has gone
\* on to rebuildLabels()
labelsBuilt ==
  \/ last'.op = "updateDensityForZoom" /\ last'.result = "rebuilt"
  \/ /\ last'.op = "callback" /\ last'.id = places /\ last'.kind = "enable"
     /\ last'.result = "applied" /\ data[places]

\* C31: the tier selected by updateDensityForZoom is not lost while the
\* populated-places layer is disabled or its load is pending: whenever the
\* labels are built or rebuilt, they are built with the rank cutoff and the
\* label cap that the most recent updateDensityForZoom call selected, and
\* the labels the layer holds are always of that tier.
C31_LabelsBuiltWithSelectedTier ==
  /\ [](\A i \in 1..Len(labelSprites[places]) :
          built[labelSprites[places][i].id] = selectedTier)
  /\ [][labelsBuilt =>
          /\ labelSprites'[places] # <<>>
          /\ \A i \in 1..Len(labelSprites'[places]) :
               built'[labelSprites'[places][i].id] = selectedTier']_vars

\* the callback of enable() has just built the labels with the tier of the
\* widest view, which was selected while the layer was disabled or loading
C31_Witness ==
  /\ last.op = "callback" /\ last.id = places /\ last.result = "applied"
  /\ labelSprites[places] # <<>>
  /\ selected = [rank |-> 3, labels |-> 140, ready |-> FALSE]
  /\ built[labelSprites[places][1].id] = [rank |-> 3, labels |-> 140]

\* C32: while the populated-places layer is enabled with its data loaded,
\* its points object and its label sprites in the scene were built with the
\* same rank cutoff, the one currently applied.
C32_PointsMatchLabels ==
  (enabled[places] /\ data[places])
    => \A o \in scene : o.owner = places => built[o.id].rank = currentMaxScaleRank

\* the per-frame handlers layer l has in the renderer's tickHandlers
hooksOf(l) == {h \in layerHooks : h.owner = l}

\* C33: a layer that registers a per-frame handler (populated places, the
\* bin-collection demo) has at most one handler registered with the renderer
\* at any time and none while it is disabled, however enable, disable and
\* refresh interleave with the load resolutions.
C33_AtMostOneHook ==
  \A l \in LayerIds :
    /\ Cardinality(hooksOf(l)) <= 1
    /\ ~enabled[l] => hooksOf(l) = {}

\* a second callback of enable() has run while the populated-places layer
\* was enabled and had its handler registered: one handler is registered
C33_Witness ==
  /\ last.op = "callback" /\ last.id = places /\ last.result = "applied"
  /\ last.pre > 0
  /\ enabled[places]
  /\ Cardinality(hooksOf(places)) = 1

-----------------------------------------------------------------------------
(* Claims about the camera controller *)

\* C6: after every public operation of the controller the radius lies in
\* [minRadius, maxRadius], phi in [minPhi, maxPhi] and the field of view in
\* [minFov, maxFov].
C6_CameraWithinLimits ==
  /\ minRadius <= Val(radius) /\ Val(radius) <= maxRadius
  /\ minPhi <= phi /\ phi <= maxPhi
  /\ minFov <= Val(fov) /\ Val(fov) <= maxFov

\* a drag that ran into the phi limit while the zoom sat at both of its limits
C6_Witness ==
  /\ camOp = "pointerMove"
  /\ onChange.called
  /\ phi = minPhi
  /\ Val(fov) = minFov
  /\ Val(radius) < Val(MulZoom(Num(minRadius)))

\* C8: every operation that changes radius, theta, phi or the field of view
\* calls the observer before it returns, with the zoom factor of the state it
\* leaves.
C8_EveryChangeNotified ==
  [][(radius' # radius \/ theta' # theta \/ phi' # phi \/ fov' # fov)
       => (onChange'.called /\ onChange'.zoom = getZoomFactor(radius', fov'))]_vars

C10_ZoomOutWidensFirst ==
  [][camOp' = "zoomOut" =>
       /\ (Val(fov) < maxFov => Val(fov') > Val(fov) /\ radius' = radius)
       /\ (radius' # radius => Val(fov) = maxFov /\ Val(radius') > Val(radius))]_vars

\* a zoomOut has widened the field of view and left it short of maxFov
C10_Witness ==
  /\ camOp = "zoomOut"
  /\ minFov < Val(fov)
  /\ Val(fov) < maxFov

\* C11: focusOn with absent bounds or with a bounds object that has a missing
\* or non-numeric field is a no-op: radius, theta, phi and the field of view
\* are unchanged.
C11_InvalidFocusIsNoOp ==
  [][(focusOn("null") \/ focusOn("nonNumeric"))
       => UNCHANGED <<radius, theta, phi, fov>>]_vars

\* the state after n calls of zoomIn() from c
RECURSIVE ZoomInTimes(_, _)
ZoomInTimes(c, n) ==
  IF n = 0
  THEN c
  ELSE IF n = 1
       THEN zoomInStep(c)
       ELSE CHOOSE r \in {ZoomInTimes(d, n - n \div 2) :
                           d \in {ZoomInTimes(c, n \div 2)}} : TRUE

\* what C12 says of one ensureZoomAtLeast, but for the number of calls: no
\* call when the target is not finite, not positive or already met; the
\* state left is the one after the calls made; the last call was made short
\* of the target; the loop stopped short of its steps only with the target
\* met; and the zoom factor has not decreased
C12_StopsAtTarget ==
  LET target == zoomArgs'.minZoomFactor
      calls == onChange'.calls
      before == getZoomFactor(radius, fov)
      after == getZoomFactor(radius', fov')
  IN  /\ (~target.finite \/ target.value <= 0 \/ before >= target.value)
           => calls = 0
      /\ calls <= 256
      /\ IF calls = 0
         THEN Cam' = Cam
         ELSE \E prev \in {ZoomInTimes(Cam, calls - 1)} :
                /\ getZoomFactor(prev.radius, prev.fov) < target.value
                /\ Cam' = zoomInStep(prev)
      /\ (target.finite /\ target.value > 0 /\ 2 * calls < zoomArgs'.maxSteps
            /\ calls < 256)
           => after >= target.value
      /\ after >= before

C23_DragStateMachine ==
  /\ [](isDragging <=> activePointerId \in PointerIds)
  /\ [][\A id \in PointerIds :
          /\ (\E x \in ClientXs, y \in ClientYs : onPointerDown(id, x, y))
               => (isDragging' /\ activePointerId' = id)
          /\ onPointerUp(id)
               => IF isDragging /\ id = activePointerId
                  THEN ~isDragging' /\ activePointerId' = 0
                  ELSE UNCHANGED <<isDragging, activePointerId>>
          /\ onPointerUp(id) => UNCHANGED <<radius, theta, phi, fov, lastX, lastY>>
          /\ ((\E x \in ClientXs, y \in ClientYs : onPointerMove(id, x, y))
                /\ (~isDragging \/ id # activePointerId))
               => UNCHANGED <<isDragging, activePointerId, lastX, lastY, radius,
                              theta, phi, fov>>]_vars

\* after a drag that turned the camera, a pointer other than the recorded one
\* went up and the drag goes on
C23_Witness ==
  /\ camOp = "pointerUp"
  /\ isDragging
  /\ activePointerId = 1
  /\ phi # halfPi

\* C27: in every reachable state a field of view below baseFov implies that
\* the distance stage is exhausted: radius / zoomSpeed < minRadius + 1e-6.
C27_FovZoomOnlyNearMinRadius ==
  Val(fov) < baseFov => Val(DivZoom(radius)) < minRadius + Eps

\* a zoomOut has left the field of view narrowed, at a radius above
\* minRadius and within one zoom step of it
C27_Witness ==
  /\ camOp = "zoomOut"
  /\ Val(fov) < baseFov
  /\ Val(fov) > minFov
  /\ Val(radius) > minRadius
  /\ Val(DivZoom(radius)) < minRadius + Eps

\* C28: zoomIn never decreases the zoom factor
\* (baseRadius / radius) * (baseFov / fov) and zoomOut never increases it:
\* zoomIn raises neither the radius nor the field of view, zoomOut lowers
\* neither.
C28_ZoomFactorMonotone ==
  [][/\ camOp' = "zoomIn" =>
          /\ getZoomFactor(radius', fov') >= getZoomFactor(radius, fov)
          /\ Val(radius') <= Val(radius)
          /\ Val(fov') <= Val(fov)
     /\ camOp' = "zoomOut" =>
          /\ getZoomFactor(radius', fov') <= getZoomFactor(radius, fov)
          /\ Val(radius') >= Val(radius)
          /\ Val(fov') >= Val(fov)]_vars

\* a zoomIn in the field-of-view stage has taken the zoom factor past 10
C28_Witness ==
  /\ camOp = "zoomIn"
  /\ Val(fov) < baseFov
  /\ onChange.zoom = getZoomFactor(radius, fov)
  /\ onChange.zoom > 10000

\* the camera state that the bounds alone determine: the centre of the box,
\* the base field of view and the fitting radius, clamped
focusResult(b) ==
  [radius |-> clampRadius(Num(desiredRadius(b))),
   theta  |-> centerTheta(b),
   phi    |-> clamp(centerPhi(b), minPhi, maxPhi),
   fov    |-> Num(baseFov)]

\* C35: focusOn with valid bounds is deterministic in the bounds alone: from
\* every reachable camera state it ends with the field of view at its base
\* value, the radius within [minRadius, maxRadius] and the same theta, phi,
\* radius and field of view for the same bounds.
C35_FocusDependsOnBoundsOnly ==
  [][\A b \in RegionBounds :
       focusOn(b) => /\ Cam' = focusResult(b)
                     /\ Val(fov') = baseFov
                     /\ Val(radius') >= minRadius /\ Val(radius') <= maxRadius]_vars

\* focusOn has framed the polar cap, whose fitting radius is clamped to
\* minRadius, while a drag was in progress
C35_Witness ==
  /\ camOp = "focusOn"
  /\ onChange.called
  /\ Cam = focusResult("POLAR_CAP")
  /\ Val(radius) = minRadius
  /\ isDragging

\* zoomIn() followed by zoomOut() from camera state c
zoomInThenOut(c) == zoomOutStep(zoomInStep(c))

\* zoomIn() from c narrows the field of view and clampFov raises the result
\* to minFov
clampedAtMinFov(c) ==
  /\ zoomInStep(c).radius = c.radius
  /\ Val(DivZoom(c.fov)) < minFov

\* C36 as stated: from every reachable camera state in which zoomIn changes
\* the state, zoomIn followed by zoomOut restores the radius and the field
\* of view, also across the seam between the two stages and when a step is
\* clamped at a bound.
C36_ZoomOutUndoesZoomIn ==
  zoomInStep(Cam) # Cam
    => /\ zoomInThenOut(Cam).radius = radius
       /\ zoomInThenOut(Cam).fov = fov

\* C36, amended: zoomIn followed by zoomOut restores the radius and the
\* field of view from every reachable camera state in which zoomIn changes
\* the state and its narrowing step is not clamped at minFov; when it is,
\* the radius is restored and the field of view ends at minFov * zoomSpeed,
\* above the one before.
C36_ZoomOutUndoesUnclampedZoomIn ==
  zoomInStep(Cam) # Cam
    => /\ zoomInThenOut(Cam).radius = radius
       /\ ~clampedAtMinFov(Cam) => zoomInThenOut(Cam).fov = fov
       /\ clampedAtMinFov(Cam)
            => /\ zoomInThenOut(Cam).fov = MulZoom(Num(minFov))
               /\ Val(zoomInThenOut(Cam).fov) > Val(fov)

\* a zoomOut has returned the camera to the seam: the field of view is at
\* its base and the next zoomIn narrows it, the radius being within one
\* step of minRadius
C36_Witness ==
  /\ camOp = "zoomOut"
  /\ Val(fov) = maxFov
  /\ Val(radius) > minRadius
  /\ zoomInStep(Cam).radius = radius
  /\ zoomInStep(Cam) # Cam

-----------------------------------------------------------------------------
(* Claims about the selection highlight *)

\* C7: a highlight's objects are removed from the scene and its resources
\* released exactly once, by the first tick at which its progress
\* (nowMs - startMs) / durationMs is at least 1, and that tick takes it off
\* the active list; before that tick it is never released, and no tick
\* updates or releases a highlight that is off the list.
C7_ReleasedOnceAtExpiry ==
  /\ [](\A n \in 1..flashed :
          /\ released[n] <= 1
          /\ released[n] = 0 <=> \E i \in 1..Len(highlights) : highlights[i].id = n
          /\ released[n] = 0 => {haloLines(n), coreLines(n)} \subseteq scene
          /\ released[n] = 1 => {haloLines(n), coreLines(n)} \cap scene = {})
  /\ [][/\ \A i \in 1..Len(highlights) :
             LET h == highlights[i]
                 reached == \/ h.durationMs > 0 /\ clock - h.startMs >= h.durationMs
                            \/ h.durationMs = 0 /\ clock - h.startMs > 0
             IN  IF lastTick'.op = "tick" /\ reached
                 THEN /\ released'[h.id] = released[h.id] + 1
                      /\ h.id \in lastTick'.freed
                      /\ h \notin Range(highlights')
                 ELSE /\ released'[h.id] = released[h.id]
                      /\ h \in Range(highlights')
                      /\ h.id \notin lastTick'.freed
        /\ lastTick'.freed \cup lastTick'.updated
             \subseteq {highlights[i].id : i \in 1..Len(highlights)}]_vars

\* a tick released one highlight and updated another that is still running
C7_Witness ==
  /\ lastTick.op = "tick"
  /\ lastTick.freed # {}
  /\ lastTick.updated # {}
  /\ \E n \in lastTick.freed : released[n] = 1 /\ haloLines(n) \notin scene

\* the highlight objects in the scene
highlightObjects(sc) == {o \in sc : o.owner = "highlight"}

\* this step enqueues nothing and adds nothing to the scene
addsNothing == highlights' = highlights /\ scene' = scene

\* this step enqueues one highlight, after the active ones, and adds its two
\* objects, a halo and a core, to the scene
addsHaloAndCore ==
  /\ Len(highlights') = Len(highlights) + 1
  /\ SubSeq(highlights', 1, Len(highlights)) = highlights
  /\ scene \subseteq scene'
  /\ Cardinality(scene' \ scene) = 2
  /\ {o.kind : o \in scene' \ scene} = {"halo", "core"}
  /\ Range(highlights'[Len(highlights')].objects) = scene' \ scene

\* the geometries the claim names as yielding no line positions: a missing
\* geometry, a Point and a polygon with no rings
NoLineGeometries ==
  {Geometry("none", <<>>), Geometry("Point", <<>>), Geometry("Polygon", <<>>)}

\* C30: a flash whose geometry yields line positions enqueues exactly one
\* highlight and adds exactly two objects, the halo and the core, to the
\* scene; a flash whose geometry yields none (a missing geometry, a Point,
\* empty rings) or whose bounds are absent or not finite enqueues and adds
\* nothing; so in every state the scene holds twice as many highlight
\* objects as there are active highlights.
C30_TwoObjectsPerHighlight ==
  /\ [](Cardinality(highlightObjects(scene)) = 2 * Len(highlights))
  /\ [][/\ \A g \in FlashGeometries :
            flashGeometry(geometryToLinePositions(g), 300)
              => IF geometryToLinePositions(g) /\ g \notin NoLineGeometries
                 THEN addsHaloAndCore ELSE addsNothing
        /\ \A b \in BoundsKinds :
            flashBounds(b, 300) => IF b = "box" THEN addsHaloAndCore ELSE addsNothing
        /\ lastTick'.op = "resume" => (addsHaloAndCore \/ addsNothing)]_vars

\* two highlights are active with their four objects after a flash of a box,
\* an earlier highlight having expired
C30_Witness ==
  /\ lastTick.op = "flashBounds"
  /\ flashed = 3
  /\ Len(highlights) = 2
  /\ Cardinality(highlightObjects(scene)) = 4

\* C34: SelectionHighlight calls fetch() at most once per dataUrl over its
\* lifetime: a flashGeoJsonFeature call for a URL that was requested before
\* takes the promise of the first request from the cache, also when that
\* promise was rejected, so that a failed load is never retried.
C34_OneFetchPerUrl ==
  /\ [](\A u \in DataUrls :
          /\ geoFetches[u] <= 1
          /\ geoFetches[u] = 1 <=> geojsonCache[u] # "absent")
  /\ [][\A u \in DataUrls :
          geojsonCache[u] # "absent"
            => /\ geoFetches'[u] = geoFetches[u]
               /\ geojsonCache'[u] # "absent"
               /\ geojsonCache[u] \in {"fulfilled", "rejected"}
                    => geojsonCache'[u] = geojsonCache[u]]_vars

\* a feature of a collection whose load has failed is requested again: the
\* request waits for the rejected promise and no second fetch is made
C34_Witness ==
  /\ lastTick.op = "request"
  /\ geojsonCache["uk-regions"] = "rejected"
  /\ geoFetches["uk-regions"] = 1
  /\ \E i \in 1..Len(flashRequests) : flashRequests[i].url = "uk-regions"

-----------------------------------------------------------------------------
(* Claims about the service worker *)

\* the requests that are to bypass the cache: not a GET, same-origin under
\* /api/ or with a query string, with an authorization header, cross-origin
\* outside the allowlist, same-origin .zip or under /src/data-src/
neverCached(q) ==
  \/ q.method # "GET"
  \/ q.origin = "self" /\ (startsWithApi(q.path) \/ q.search # "")
  \/ q.authorization
  \/ q.origin \notin {"self", "https://unpkg.com"}
  \/ q.origin = "self" /\ (endsWithZip(q.path) \/ includesDataSrc(q.path))

tessellated == selection.op = "ringToLinePositions"

\* position i of the ring once closed
closedPosition(i) == closedRing(rings)[i]

\* the edges of the ring once closed
ringEdges == IF Len(rings) < 2 THEN {} ELSE 1..(Len(closedRing(rings)) - 1)

\* n is max(1, ceil(omega / maxSegmentRadians))
isSegmentCount(n, omega) ==
  IF omega <= maxSegmentRadians THEN n = 1
  ELSE (n - 1) * maxSegmentRadians < omega /\ omega <= n * maxSegmentRadians

\* the segments emitted for edge i are as many as its angle asks for and
\* each starts where the one before it ended
segmentsChained(i) ==
  LET segs == selection.kept[i]
  IN  /\ isSegmentCount(Len(segs), angleBetween(closedPosition(i), closedPosition(i + 1)))
      /\ \A s \in 1..(Len(segs) - 1) : segs[s + 1][1] = segs[s][2]

\* the segments emitted for edge i start at its first position and end at
\* its second
segmentsJoinEnds(i) ==
  LET segs == selection.kept[i]
  IN  /\ segs[1][1] = latLonToUnitVector(closedPosition(i))
      /\ segs[Len(segs)][2] = latLonToUnitVector(closedPosition(i + 1))

\* edge i joins two distinct positions less than 1e-6 rad apart
belowEpsilon(i) ==
  /\ closedPosition(i) # closedPosition(i + 1)
  /\ angleBetween(closedPosition(i), closedPosition(i + 1)) < epsilonUnits

\* C38 as stated: for every edge A-B of the closed ring with angle omega,
\* ringToLinePositions emits exactly max(1, ceil(omega / maxSegmentRadians))
\* segments, the first starting at A, the last ending at B, each starting
\* where the previous one ended
C38_SegmentsJoinAToB ==
  tessellated
    => /\ DOMAIN selection.kept = ringEdges
       /\ \A i \in ringEdges : segmentsChained(i) /\ segmentsJoinEnds(i)

\* C38: for every edge A-B of the closed ring with angle omega,
\* ringToLinePositions emits exactly max(1, ceil(omega / maxSegmentRadians))
\* segments, each starting where the previous one ended, the first starting
\* at A and the last ending at B unless A and B are distinct and less than
\* 1e-6 rad apart, in which case the one segment emitted starts and ends at A
C38_SegmentsJoinAToBFromEpsilon ==
  tessellated
    => /\ DOMAIN selection.kept = ringEdges
       /\ \A i \in ringEdges :
            /\ segmentsChained(i)
            /\ IF belowEpsilon(i)
               THEN selection.kept[i] = <<<<latLonToUnitVector(closedPosition(i)),
                                            latLonToUnitVector(closedPosition(i))>>>>
               ELSE segmentsJoinEnds(i)

\* a ring of three positions is tessellated: its first two edges take three
\* segments each, the third is shorter than 1e-6 rad
C38_Witness ==
  /\ tessellated
  /\ rings = <<0, 250000, 3>>
  /\ Len(selection.kept[1]) = 3
  /\ selection.kept[1][2] = <<unitPoint(83333, 1, 3), unitPoint(166666, 2, 3)>>
  /\ Len(selection.kept[2]) = 3
  /\ Len(selection.kept[3]) = 1

\* highlight n is in the active list
isActive(n) == \E i \in 1..Len(highlights) : highlights[i].id = n

\* the progress t of active highlight n at the last tick, in sixtieths
progressOf(n) ==
  progress(lastTick.nowMs, CHOOSE h \in Range(highlights) : h.id = n)

\* baseOpacity of material m in millionths
baseMillionths(m) == baseOpacities[m] * 10000

\* the last tick left every active highlight with t < 1 and an opacity
\* within [0, baseOpacity], which is 0.15 * baseOpacity at t = 0, and removed
\* every other highlight from the active list and the scene
opacityInRange ==
  /\ \A h \in Range(highlights) :
       /\ 0 <= progressOf(h.id) /\ progressOf(h.id) < 60
       /\ \E e \in lastTick.opacity : e.id = h.id
  /\ \A e \in lastTick.opacity, m \in DOMAIN baseOpacities :
       /\ isActive(e.id)
       /\ e.materials[m].finite
       /\ 0 <= e.materials[m].value
       /\ e.materials[m].value <= baseMillionths(m)
       /\ progressOf(e.id) = 0
            => /\ e.materials[m].value > 0
               /\ 100 * e.materials[m].value = 15 * baseMillionths(m)
  /\ \A n \in lastTick.freed :
       ~isActive(n) /\ {haloLines(n), coreLines(n)} \cap scene = {}

\* of two highlights that the last tick has set the opacity of, the one
\* whose t is nearer to the interval [low, high] sixtieths is not the dimmer:
\* the opacity has its maximum in that interval
opacityPeaksWithin(low, high) ==
  \A e1, e2 \in lastTick.opacity, m \in DOMAIN baseOpacities :
    /\ progressOf(e1.id) < progressOf(e2.id) /\ progressOf(e2.id) <= low
         => e1.materials[m].value <= e2.materials[m].value
    /\ high <= progressOf(e1.id) /\ progressOf(e1.id) < progressOf(e2.id)
         => e1.materials[m].value >= e2.materials[m].value

\* C39 as stated: the opacity a tick sets is small but not zero at t = 0, has
\* its maximum near t = 0.5 (between 0.4 and 0.6), stays within
\* [0, baseOpacity] for 0 <= t < 1, and the highlight is removed at t >= 1
C39_OpacityPeaksNearHalf ==
  lastTick.op = "tick" => opacityInRange /\ opacityPeaksWithin(24, 36)

\* C39: the opacity a tick sets is 0.15 * baseOpacity at t = 0, rises until
\* t = 0.2 and falls from t = 0.3 on, so that its maximum is near t = 0.25,
\* stays within [0, baseOpacity] for 0 <= t < 1, and the highlight is
\* removed at t >= 1
C39_OpacityPeaksNearQuarter ==
  lastTick.op = "tick" => opacityInRange /\ opacityPeaksWithin(12, 18)

\* a tick sets the opacity of two highlights of 400 ms, one at t = 0.25 and
\* one at t = 0.5: the first is the brighter
C39_Witness ==
  /\ lastTick.op = "tick"
  /\ \E e1, e2 \in lastTick.opacity :
       /\ progressOf(e1.id) = 15
       /\ progressOf(e2.id) = 30
       /\ e1.materials = <<Finite(189837), Finite(358581)>>
       /\ e2.materials = <<Finite(112500), Finite(212500)>>

\* C29: with a tick in every frame and time that grows without bound, every
\* enqueued highlight is eventually removed from the active list and its
\* objects from the scene, whatever durationMs it was flashed with, so that
\* the active list is eventually empty once no flash follows
C29_HighlightsExpire ==
  \A n \in 1..MaxFlashes :
    isActive(n) ~> (~isActive(n) /\ {haloLines(n), coreLines(n)} \cap scene = {})

=============================================================================
